---------------------------- MODULE Spec2Model ----------------------------
(***************************************************************************)
(* A model of parts of the 2vyper / nagini / py2viper translation tool     *)
(* chain: big-integer marshalling, the arithmetic translator's revert and  *)
(* overflow guards, the backend verifier wrapper, the server loop of the   *)
(* command line, constant folding, scope-local fresh names and the         *)
(* annotated-test harness.                                                 *)
(*                                                                         *)
(* Every component owns one variable.  All components start in the same    *)
(* initial state; a component specification SpecX == Init /\ [][NextX]_vars*)
(* lets only that component take steps.                                    *)
(***************************************************************************)
EXTENDS Integers, Sequences, FiniteSets, TLC

VARIABLES bigint, arith, verifier, server, fold, scope, harness,
          errmgr, checker, typing, preproc, literal, oblig, cli,
          registry,
          builder,
          frontend,
          success,
          trycatch,
          sif,
          interp,
          oldscope

vars ==
    <<bigint, arith, verifier, server, fold, scope, harness, errmgr,
      checker, typing, preproc, literal, oblig, cli,
      registry,
      builder,
      frontend,
      success,
      trycatch,
      sif,
      interp,
      oldscope>>

(***************************************************************************)
(* Helpers on sequences.                                                   *)
(***************************************************************************)
Range(s) == {s[i] : i \in DOMAIN s}

SeqsUpTo(S, n) == UNION {[1..k -> S] : k \in 0..n}

(***************************************************************************)
(* ViperAST.to_big_int  (nagini_translation/lib/viper_ast.py)              *)
(*                                                                         *)
(* Python ints and java.math.BigInteger values are unbounded.  Both are    *)
(* represented exactly as a sign and a magnitude; the magnitude is the     *)
(* little-endian sequence of base-LONG_SIZE digits without leading zeros   *)
(* (<<>> is 0).  5,000,000,000 = 2 * 2147483647 + 705032706 is the         *)
(* magnitude <<705032706, 2>>.                                             *)
(***************************************************************************)
LONG_SIZE == 2147483647

MaxDigits == 3

\* Digits the inputs are drawn from: the low and high ends of a digit and
\* the low digit of 5,000,000,000.
DigitSamples == {0, 1, 2, 705032706, LONG_SIZE - 1}

Magnitudes ==
    {m \in SeqsUpTo(DigitSamples, MaxDigits) : m = <<>> \/ m[Len(m)] # 0}

BigNumbers == {[neg |-> s, mag |-> m] : s \in BOOLEAN, m \in Magnitudes}
                 \ {[neg |-> TRUE, mag |-> <<>>]}

FiveBillion == [neg |-> FALSE, mag |-> <<705032706, 2>>]

MinusFiveBillion == [neg |-> TRUE, mag |-> <<705032706, 2>>]

\* num < 0
IsNegative(n) == n.neg

\* -num
Negate(n) == IF n.mag = <<>> THEN n ELSE [neg |-> ~n.neg, mag |-> n.mag]

\* rest % cutoff and rest // cutoff for rest >= 0 and cutoff = LONG_SIZE
ModCutoff(m) == IF m = <<>> THEN 0 ELSE m[1]

DivCutoff(m) == IF m = <<>> THEN <<>> ELSE Tail(m)

\* BigInteger.valueOf(d) for 0 <= d < LONG_SIZE
BigValueOf(d) == IF d = 0 THEN <<>> ELSE <<d>>

\* result_int.multiply(cutoff_int): one digit position up
BigMultiplyCutoff(m) == IF m = <<>> THEN <<>> ELSE <<0>> \o m

\* result_int.add(current_int) on magnitudes, with carry
RECURSIVE BigAddCarry(_, _, _)
BigAddCarry(a, b, carry) ==
    IF a = <<>> /\ b = <<>>
    THEN IF carry = 0 THEN <<>> ELSE <<carry>>
    ELSE LET x == IF a = <<>> THEN 0 ELSE a[1]
             y == IF b = <<>> THEN 0 ELSE b[1]
             ra == IF a = <<>> THEN <<>> ELSE Tail(a)
             rb == IF b = <<>> THEN <<>> ELSE Tail(b)
             \* x + y + carry compared with LONG_SIZE without leaving 32 bits
             over == (x >= LONG_SIZE - y) \/ (x + y >= LONG_SIZE - carry)
             digit == IF x >= LONG_SIZE - y
                      THEN (x - (LONG_SIZE - y)) + carry
                      ELSE IF x + y >= LONG_SIZE - carry
                           THEN (x + y) - (LONG_SIZE - carry)
                           ELSE x + y + carry
         IN <<digit>> \o BigAddCarry(ra, rb, IF over THEN 1 ELSE 0)

BigAdd(a, b) == BigAddCarry(a, b, 0)

\* The while loop of to_big_int: rest is consumed from its least
\* significant digit, result_int is multiplied by the cutoff and the digit
\* is added.
RECURSIVE ToBigIntLoop(_, _)
ToBigIntLoop(rest, result_int) ==
    IF rest = <<>>
    THEN result_int
    ELSE LET current_part == ModCutoff(rest)
             current_int == BigValueOf(current_part)
         IN ToBigIntLoop(DivCutoff(rest),
                         BigAdd(BigMultiplyCutoff(result_int), current_int))

to_big_int(num) ==
    LET negative == IsNegative(num)
        abs == IF negative THEN Negate(num) ELSE num
        result_int == ToBigIntLoop(abs.mag, BigValueOf(0))
        unsigned == [neg |-> FALSE, mag |-> result_int]
    IN IF negative THEN Negate(unsigned) ELSE unsigned

FrameBigInt ==
    UNCHANGED
        <<arith, verifier, server, fold, scope, harness, errmgr, checker,
          typing, preproc, literal, oblig, cli,
          registry,
          builder,
          frontend,
          success,
          trycatch,
          sif,
          interp,
          oldscope>>

BigIntInit == bigint = [pc |-> "idle"]

\* A caller marshals the integer num.
ToBigInt(num) ==
    /\ bigint' = [pc |-> "done", num |-> num, result |-> to_big_int(num)]
    /\ FrameBigInt

NextBigInt == \E num \in BigNumbers : ToBigInt(num)

(***************************************************************************)
(* ArithmeticTranslator  (twovyper/translation/arithmetic.py) and the      *)
(* older ExpressionTranslator.translate_BinOp                              *)
(* (nagini_translation/translation/expression.py).                         *)
(*                                                                         *)
(* IR statements and expressions are records.  Operands are the symbols    *)
(* "lhs", "rhs"; the translated result expression is carried in the        *)
(* conditions as arg.  The bounds of a type stay symbolic ("lower",        *)
(* "upper").                                                               *)
(***************************************************************************)
VYPER_INT128 == "int128"

VYPER_UINT256 == "uint256"

VYPER_DECIMAL == "decimal"

NumericTypes == {VYPER_INT128, VYPER_UINT256, VYPER_DECIMAL}

ArithmeticOperators == {"ADD", "SUB", "MUL", "DIV", "MOD", "POW"}

UnaryArithmeticOperators == {"ADD", "SUB"}

is_unsigned(type) == type = VYPER_UINT256

\* The bounded types: the two integer types and the fixed-point decimal.
is_bounded(type) == type \in {VYPER_INT128, VYPER_UINT256, VYPER_DECIMAL}

IntLit(n) == [kind |-> "IntLit", value |-> n]

BinExpr(kind, l, r) == [kind |-> kind, left |-> l, right |-> r]

Goto(label) == [kind |-> "Goto", label |-> label]

LocalVarAssign(var, value) ==
    [kind |-> "LocalVarAssign", var |-> var, value |-> value]

If(cond, then, else) == [kind |-> "If", cond |-> cond, then |-> then, else |-> else]

\* CommonTranslator.fail_if: the extra statements followed by a jump to the
\* revert label, inside an if on cond.
fail_if(cond, stmts) == If(cond, stmts \o <<Goto("revert")>>, <<>>)

\* _set_overflow_flag appends $overflow := true
set_overflow_flag(stmts) ==
    Append(stmts, LocalVarAssign("$overflow", [kind |-> "TrueLit"]))

CheckUnderflowFlagged(arg, type, res, no_reverts, no_overflows) ==
    LET lt == BinExpr("LtCmp", arg, "lower")
    IN IF ~no_reverts /\ ~no_overflows
       THEN Append(res, fail_if(lt, set_overflow_flag(<<>>)))
       ELSE res

check_underflow(arg, type, res, no_reverts, no_overflows) ==
    LET lt == BinExpr("LtCmp", arg, "lower")
    IN IF is_unsigned(type) /\ ~no_reverts
       THEN Append(res, fail_if(lt, <<>>))
       ELSE IF ~no_reverts /\ ~no_overflows
            THEN Append(res, fail_if(lt, set_overflow_flag(<<>>)))
            ELSE res

check_overflow(arg, type, res, no_reverts, no_overflows) ==
    LET gt == BinExpr("GtCmp", arg, "upper")
    IN IF ~no_reverts /\ ~no_overflows
       THEN Append(res, fail_if(gt, set_overflow_flag(<<>>)))
       ELSE res

check_under_overflow(arg, type, res, no_reverts, no_overflows) ==
    IF is_unsigned(type) /\ ~no_reverts
    THEN check_overflow(arg, type,
                        check_underflow(arg, type, res, no_reverts, no_overflows),
                        no_reverts, no_overflows)
    ELSE IF ~no_reverts /\ ~no_overflows
         THEN LET lt == BinExpr("LtCmp", arg, "lower")
                  gt == BinExpr("GtCmp", arg, "upper")
                  cond == BinExpr("Or", lt, gt)
              IN Append(res, fail_if(cond, set_overflow_flag(<<>>)))
         ELSE res

\* The IR expression of lhs op rhs: decimals are scaled integers.
ArithmeticExpr(op, otype) ==
    LET scaling_factor == "scaling_factor"
    IN IF op = "MUL" /\ otype = VYPER_DECIMAL
       THEN BinExpr("div", BinExpr("Mul", "lhs", "rhs"), scaling_factor)
       ELSE IF op = "DIV" /\ otype = VYPER_DECIMAL
            THEN BinExpr("div", BinExpr("Mul", "lhs", scaling_factor), "rhs")
            ELSE BinExpr(CASE op = "ADD" -> "Add" [] op = "SUB" -> "Sub"
                           [] op = "MUL" -> "Mul" [] op = "DIV" -> "div"
                           [] op = "MOD" -> "mod" [] op = "POW" -> "pow",
                         "lhs", "rhs")

\* The divisor guard of arithmetic_op.
DivisorGuardUnlessNoOverflows(op, res, no_reverts, no_overflows) ==
    IF op \in {"DIV", "MOD"} /\ ~no_reverts /\ ~no_overflows
    THEN Append(res, fail_if(BinExpr("EqCmp", "rhs", IntLit(0)), <<>>))
    ELSE res

DivisorGuard(op, res, no_reverts, no_overflows) ==
    IF op \in {"DIV", "MOD"} /\ ~no_reverts
    THEN Append(res, fail_if(BinExpr("EqCmp", "rhs", IntLit(0)), <<>>))
    ELSE res

\* arithmetic_op: [res |-> the statements appended to res, expr |-> result]
arithmetic_op(op, otype, res, no_reverts, no_overflows) ==
    LET guarded == DivisorGuard(op, res, no_reverts, no_overflows)
        expr == ArithmeticExpr(op, otype)
    IN [res |-> IF is_bounded(otype)
                THEN check_under_overflow(expr, otype, guarded,
                                          no_reverts, no_overflows)
                ELSE guarded,
        expr |-> expr]

\* unary_arithmetic_op: negation checks only for overflow.
unary_arithmetic_op(op, otype, res, no_reverts, no_overflows) ==
    LET result == IF op = "ADD" THEN "arg" ELSE [kind |-> "Minus", arg |-> "arg"]
    IN [res |-> IF is_bounded(otype)
                THEN check_overflow(result, otype, res, no_reverts, no_overflows)
                ELSE res,
        expr |-> result]

\* nagini ExpressionTranslator.translate_BinOp on two leaf operands (their
\* statement lists are empty).
NaginiOperators == {"Add", "Sub", "Mult", "Div", "Mod"}

NaginiFailIf(cond) == If(cond, <<Goto("revert")>>, <<>>)

translate_BinOp(op, type) ==
    LET stmts0 == <<>>
        stmts1 == IF op \in {"Div", "Mod"}
                  THEN Append(stmts0,
                              NaginiFailIf(BinExpr("EqCmp", "rhs", IntLit(0))))
                  ELSE stmts0
        stmts2 == IF op = "Sub" /\ type = VYPER_UINT256
                  THEN Append(stmts1, NaginiFailIf(BinExpr("GtCmp", "rhs", "lhs")))
                  ELSE stmts1
    IN [res |-> stmts2, expr |-> BinExpr(op, "lhs", "rhs")]

FrameArith ==
    UNCHANGED
        <<bigint, verifier, server, fold, scope, harness, errmgr, checker,
          typing, preproc, literal, oblig, cli,
          registry,
          builder,
          frontend,
          success,
          trycatch,
          sif,
          interp,
          oldscope>>

ArithInit == arith = [pc |-> "idle"]

\* ArithmeticTranslator(viper_ast, no_reverts) is constructed for a program
\* whose config has or has not the option no_overflows.
ArithConstruct(no_reverts, no_overflows) ==
    /\ arith.pc = "idle"
    /\ arith' = [pc |-> "ready", translator |-> "twovyper",
                 no_reverts |-> no_reverts, no_overflows |-> no_overflows]
    /\ FrameArith

ArithmeticOp(op, otype) ==
    /\ arith.pc \in {"ready", "done"}
    /\ arith.translator = "twovyper"
    /\ LET r == arithmetic_op(op, otype, <<>>, arith.no_reverts, arith.no_overflows)
       IN arith' = [pc |-> "done", translator |-> "twovyper",
                    no_reverts |-> arith.no_reverts,
                    no_overflows |-> arith.no_overflows,
                    arity |-> 2, op |-> op, otype |-> otype,
                    res |-> r.res, expr |-> r.expr]
    /\ FrameArith

UnaryArithmeticOp(op, otype) ==
    /\ arith.pc \in {"ready", "done"}
    /\ arith.translator = "twovyper"
    /\ LET r == unary_arithmetic_op(op, otype, <<>>, arith.no_reverts,
                                    arith.no_overflows)
       IN arith' = [pc |-> "done", translator |-> "twovyper",
                    no_reverts |-> arith.no_reverts,
                    no_overflows |-> arith.no_overflows,
                    arity |-> 1, op |-> op, otype |-> otype,
                    res |-> r.res, expr |-> r.expr]
    /\ FrameArith

\* The nagini translator has neither option.
NaginiConstruct ==
    /\ arith.pc = "idle"
    /\ arith' = [pc |-> "ready", translator |-> "nagini",
                 no_reverts |-> FALSE, no_overflows |-> FALSE]
    /\ FrameArith

TranslateBinOp(op, type) ==
    /\ arith.pc \in {"ready", "done"}
    /\ arith.translator = "nagini"
    /\ LET r == translate_BinOp(op, type)
       IN arith' = [pc |-> "done", translator |-> "nagini",
                    no_reverts |-> FALSE, no_overflows |-> FALSE,
                    arity |-> 2, op |-> op, otype |-> type,
                    res |-> r.res, expr |-> r.expr]
    /\ FrameArith

NextArith ==
    \/ \E nr \in BOOLEAN, no \in BOOLEAN : ArithConstruct(nr, no)
    \/ \E op \in ArithmeticOperators, t \in NumericTypes : ArithmeticOp(op, t)
    \/ \E op \in UnaryArithmeticOperators, t \in NumericTypes :
          UnaryArithmeticOp(op, t)
    \/ NaginiConstruct
    \/ \E op \in NaginiOperators, t \in {VYPER_INT128, VYPER_UINT256} :
          TranslateBinOp(op, t)

(***************************************************************************)
(* Silicon and Carbon  (py2viper_translation/verifier.py)                  *)
(*                                                                         *)
(* One verifier instance.  log is the sequence of calls made on the        *)
(* backend object: start, restart and verify (with how verify ended:       *)
(* "success", "failure", or "raise" when the call into the foreign runtime *)
(* throws).                                                                *)
(***************************************************************************)
MaxVerifyCalls == 4

Backends == {"silicon", "carbon"}

VerifyOutcomes == {"success", "failure", "raise"}

Event(ev, outcome) == [ev |-> ev, outcome |-> outcome]

FrameVerifier ==
    UNCHANGED
        <<bigint, arith, server, fold, scope, harness, errmgr, checker,
          typing, preproc, literal, oblig, cli,
          registry,
          builder,
          frontend,
          success,
          trycatch,
          sif,
          interp,
          oldscope>>

VerifierInit == verifier = [pc |-> "idle"]

\* Silicon.__init__ / Carbon.__init__: parse the command line, start, ready
VerifierConstruct(backend) ==
    /\ verifier.pc = "idle"
    /\ verifier' = [pc |-> "constructed", backend |-> backend, ready |-> TRUE,
                    log |-> <<Event("start", "none")>>, calls |-> 0,
                    result |-> "none"]
    /\ FrameVerifier

\* ready after a call of verify whose backend verification ended as outcome:
\* self.ready = False is reached only when the backend's verify returned
ReadyAfter(ready, outcome) == IF outcome = "raise" THEN ready ELSE FALSE

\* the backend calls verify makes: a restart first when not ready
BackendCalls(ready, outcome) ==
    (IF ~ready THEN <<Event("restart", "none")>> ELSE <<>>)
        \o <<Event("verify", outcome)>>

\* Silicon.verify / Carbon.verify
VerifierVerify(outcome) ==
    /\ verifier.pc = "constructed"
    /\ verifier.calls < MaxVerifyCalls
    /\ verifier' = [verifier EXCEPT
                      !.log = @ \o BackendCalls(verifier.ready, outcome),
                      !.ready = ReadyAfter(verifier.ready, outcome),
                      !.calls = @ + 1,
                      !.result = CASE outcome = "success" -> "Success"
                                   [] outcome = "failure" -> "Failure"
                                   [] outcome = "raise" -> "raised"]
    /\ FrameVerifier

NextVerifier ==
    \/ \E b \in Backends : VerifierConstruct(b)
    \/ \E o \in VerifyOutcomes : VerifierVerify(o)

(***************************************************************************)
(* main in server mode  (twovyper/main.py)                                 *)
(*                                                                         *)
(* inbox holds the requests clients have sent to the bound reply socket,   *)
(* replies the replies sent.  main binds the socket and then evaluates     *)
(* load_sil_files(jvm, args.sif): the argument parser defines no option    *)
(* sif (and load_sil_files takes one parameter), so the evaluation raises  *)
(* AttributeError before the receive loop is entered.                      *)
(***************************************************************************)
MaxPending == 3

Files == {"a.vy", "b.vy", "c.vy"}

FrameServer ==
    UNCHANGED
        <<bigint, arith, verifier, fold, scope, harness, errmgr, checker,
          typing, preproc, literal, oblig, cli,
          registry,
          builder,
          frontend,
          success,
          trycatch,
          sif,
          interp,
          oldscope>>

ServerInit ==
    server = [pc |-> "idle", inbox |-> <<>>, replies |-> <<>>,
              error |-> "none"]

\* a client sends the path of a file to the server's endpoint
ClientSend(file) ==
    /\ Len(server.inbox) < MaxPending
    /\ server' = [server EXCEPT !.inbox = Append(@, file)]
    /\ FrameServer

\* main with --server: parse_args, the JVM, socket.bind
MainBind ==
    /\ server.pc = "idle"
    /\ server' = [server EXCEPT !.pc = "bound"]
    /\ FrameServer

\* sil_programs = load_sil_files(jvm, args.sif)
MainLoadSilFiles ==
    /\ server.pc = "bound"
    /\ server' = [server EXCEPT !.pc = "terminated",
                                !.error = "AttributeError"]
    /\ FrameServer

MainStep == MainBind \/ MainLoadSilFiles

NextServer ==
    \/ \E f \in Files : ClientSend(f)
    \/ MainBind
    \/ MainLoadSilFiles

(***************************************************************************)
(* Constant folding  (nagini_translation/parsing/transformer.py)           *)
(*                                                                         *)
(* AST nodes are records.  Expressions: Num, Name, UnaryOp, BinOp.         *)
(* Statements of a module body: AnnAssign (constant says whether the       *)
(* annotation is a call of constant), Expr and FunctionDef (with a body of *)
(* statements).  An evaluation gives [ok |-> TRUE, value |-> v] or         *)
(* [ok |-> FALSE, error |-> the exception raised].                         *)
(***************************************************************************)
Num(n) == [kind |-> "Num", n |-> n]

Name(id) == [kind |-> "Name", id |-> id]

UnaryOp(op, operand) == [kind |-> "UnaryOp", op |-> op, operand |-> operand]

BinOp(left, op, right) ==
    [kind |-> "BinOp", op |-> op, left |-> left, right |-> right]

AnnAssign(target, constant, value) ==
    [kind |-> "AnnAssign", target |-> target, constant |-> constant,
     value |-> value]

ExprStmt(value) == [kind |-> "Expr", value |-> value]

FunctionDef(body) == [kind |-> "FunctionDef", body |-> body]

Value(v) == [ok |-> TRUE, value |-> v]

Raise(e) == [ok |-> FALSE, error |-> e]

Abs(a) == IF a < 0 THEN -a ELSE a

\* Python's lhs // rhs on ints (rhs # 0): the floor of the quotient
PyFloorDiv(lhs, rhs) ==
    LET q == Abs(lhs) \div Abs(rhs)
        exact == q * Abs(rhs) = Abs(lhs)
    IN IF (lhs < 0) = (rhs < 0) \/ lhs = 0
       THEN q
       ELSE IF exact THEN -q ELSE -q - 1

\* Python's lhs % rhs on ints (rhs # 0): the sign follows the divisor
PyMod(lhs, rhs) == lhs - rhs * PyFloorDiv(lhs, rhs)

\* Python's lhs ** rhs on ints for rhs >= 0
RECURSIVE PyPow(_, _)
PyPow(lhs, rhs) == IF rhs = 0 THEN 1 ELSE lhs * PyPow(lhs, rhs - 1)

\* ConstantInterpreter.visit_BinOp on the operand values
BinOpValue(lhs, op, rhs) ==
    CASE op = "Add" -> Value(lhs + rhs)
      [] op = "Sub" -> Value(lhs - rhs)
      [] op = "Mult" -> Value(lhs * rhs)
      [] op = "Div" -> IF rhs = 0 THEN Raise("ZeroDivisionError")
                       ELSE Value(PyFloorDiv(lhs, rhs))
      [] op = "Mod" -> IF rhs = 0 THEN Raise("ZeroDivisionError")
                       ELSE Value(PyMod(lhs, rhs))
      [] op = "Pow" -> Value(PyPow(lhs, rhs))
      [] OTHER -> Raise("InvalidProgramException")

\* ConstantInterpreter.visit; constants is the interpreter's dictionary
RECURSIVE visit(_, _)
visit(node, constants) ==
    CASE node.kind = "Num" -> Value(node.n)
      [] node.kind = "Name" ->
            IF node.id \in DOMAIN constants
            THEN Value(constants[node.id])
            ELSE Raise("KeyError")
      [] node.kind = "UnaryOp" ->
            LET operand == visit(node.operand, constants)
            IN IF ~operand.ok THEN operand
               ELSE IF node.op = "USub" THEN Value(-operand.value)
               ELSE Raise("InvalidProgramException")
      [] node.kind = "BinOp" ->
            LET lhs == visit(node.left, constants)
                rhs == IF lhs.ok THEN visit(node.right, constants) ELSE lhs
            IN IF ~lhs.ok THEN lhs
               ELSE IF ~rhs.ok THEN rhs
               ELSE BinOpValue(lhs.value, node.op, rhs.value)

\* ast.parse(f'{value}', mode='eval').body: the text of a negative int
\* parses to a unary minus applied to a number
ParseValue(value) ==
    IF value < 0 THEN UnaryOp("USub", Num(-value)) ELSE Num(value)

Extend(f, k, v) == [x \in DOMAIN f \cup {k} |-> IF x = k THEN v ELSE f[x]]

\* _builtin_constants
builtin_env == [n \in {"ZERO_ADDRESS"} |-> 0]

builtin_constants == [n \in {"ZERO_ADDRESS"} |-> Num(0)]

\* ConstantCollector: the constant declarations of the module body and the
\* body without them; function definitions are kept as they are
IsConstantDecl(stmt) == stmt.kind = "AnnAssign" /\ stmt.constant

IsNotConstantDecl(stmt) == ~IsConstantDecl(stmt)

collect_constants(body) ==
    [constants |-> SelectSeq(body, IsConstantDecl),
     new_ast |-> SelectSeq(body, IsNotConstantDecl)]

\* _interpret_constants: [ok, constants] or the exception of the first
\* declaration that does not fold
RECURSIVE InterpretFrom(_, _, _)
InterpretFrom(nodes, env, constants) ==
    IF nodes = <<>>
    THEN [ok |-> TRUE, constants |-> constants]
    ELSE LET node == Head(nodes)
             value == visit(node.value, env)
         IN IF ~value.ok
            THEN value
            ELSE InterpretFrom(Tail(nodes),
                               Extend(env, node.target, value.value),
                               Extend(constants, node.target,
                                      ParseValue(value.value)))

interpret_constants(nodes) == InterpretFrom(nodes, builtin_env, builtin_constants)

\* ConstantTransformer: every Name node whose id is a constant is replaced
RECURSIVE TransformExpr(_, _)
TransformExpr(node, constants) ==
    CASE node.kind = "Name" ->
            IF node.id \in DOMAIN constants THEN constants[node.id] ELSE node
      [] node.kind = "UnaryOp" ->
            [node EXCEPT !.operand = TransformExpr(@, constants)]
      [] node.kind = "BinOp" ->
            [node EXCEPT !.left = TransformExpr(@, constants),
                         !.right = TransformExpr(@, constants)]
      [] OTHER -> node

TransformStmtModuleLevel(stmt, constants) ==
    CASE stmt.kind = "FunctionDef" -> stmt
      [] OTHER -> [stmt EXCEPT !.value = TransformExpr(@, constants)]

RECURSIVE TransformStmts(_, _)
TransformStmt(stmt, constants) ==
    CASE stmt.kind = "FunctionDef" ->
            [stmt EXCEPT !.body = TransformStmts(@, constants)]
      [] OTHER -> [stmt EXCEPT !.value = TransformExpr(@, constants)]

TransformStmts(stmts, constants) ==
    [i \in DOMAIN stmts |-> TransformStmt(stmts[i], constants)]

\* transform
transform(body) ==
    LET collected == collect_constants(body)
        constants == interpret_constants(collected.constants)
    IN IF ~constants.ok
       THEN constants
       ELSE [ok |-> TRUE,
             tree |-> TransformStmts(collected.new_ast, constants.constants)]

\* The operand values of the folded binary operations, and their nodes
OperandValues == {-7, -2, -1, 0, 1, 2, 3, 7, 10}

BinOperators == {"Add", "Sub", "Mult", "Div", "Mod", "Pow", "FloorDiv"}

\* The module bodies transform is applied to
MaxBody == 3

Declarations ==
    {AnnAssign("FEE", TRUE, BinOp(Num(10), "Div", Num(3))),
     AnnAssign("FEE", TRUE, BinOp(Num(10), "FloorDiv", Num(3))),
     AnnAssign("FEE", TRUE, Num(10)),
     AnnAssign("RATE", TRUE, BinOp(Name("FEE"), "Sub", Num(12))),
     AnnAssign("RATE", TRUE, BinOp(Num(1), "Div", Name("ZERO_ADDRESS")))}

ReferenceExprs ==
    {Name("FEE"), Name("ZERO_ADDRESS"), BinOp(Name("RATE"), "Mult", Name("x"))}

Statements ==
    Declarations
        \cup {ExprStmt(e) : e \in ReferenceExprs}
        \cup {FunctionDef(<<ExprStmt(e)>>) : e \in ReferenceExprs \ {Name("ZERO_ADDRESS")}}

DeclaredNames(body) ==
    {body[i].target : i \in {j \in DOMAIN body : IsConstantDecl(body[j])}}

\* a constant is declared once
Bodies ==
    {b \in SeqsUpTo(Statements, MaxBody) :
        \A i, j \in DOMAIN b :
            (IsConstantDecl(b[i]) /\ IsConstantDecl(b[j])
                /\ b[i].target = b[j].target) => i = j}

FrameFold ==
    UNCHANGED
        <<bigint, arith, verifier, server, scope, harness, errmgr, checker,
          typing, preproc, literal, oblig, cli,
          registry,
          builder,
          frontend,
          success,
          trycatch,
          sif,
          interp,
          oldscope>>

FoldInit == fold = [pc |-> "idle"]

\* One run of the pass starts from idle.  The interpreter folds the binary
\* operation lhs op rhs of two literals; exponents are non-negative ints.
FoldBinOp(lhs, op, rhs) ==
    /\ fold.pc = "idle"
    /\ op = "Pow" => rhs \in 0..2
    /\ fold' = [pc |-> "folded", lhs |-> lhs, op |-> op, rhs |-> rhs,
                result |-> visit(BinOp(ParseValue(lhs), op, ParseValue(rhs)),
                                 builtin_env)]
    /\ FrameFold

\* transform is applied to a module
Transform(body) ==
    /\ fold.pc = "idle"
    /\ fold' = [pc |-> "transformed", body |-> body, result |-> transform(body)]
    /\ FrameFold

\* one run of the pass from idle
NextFold ==
    /\ fold.pc = "idle"
    /\ \/ \E lhs \in OperandValues, op \in BinOperators,
             rhs \in OperandValues : FoldBinOp(lhs, op, rhs)
       \/ \E body \in Bodies : Transform(body)

(***************************************************************************)
(* PythonScope  (py2viper_translation/lib/containers.py and                *)
(* lib/program_nodes.py)                                                   *)
(*                                                                         *)
(* A program scope, a class scope in it and a method scope in the class.   *)
(* A name is the sequence of its characters; sil_names maps every scope to *)
(* its list of names.  returned is the list of the calls made so far and   *)
(* before is sil_names as it was when the last call started.               *)
(***************************************************************************)
MaxFreshCalls == 4

Scopes == {"program", "class", "method"}

\* PythonProgram has no superscope, a class is created in the program, a
\* method in its class
superscope(s) ==
    CASE s = "program" -> "None"
      [] s = "class" -> "program"
      [] s = "method" -> "class"

\* the names the constructors pass to PythonScope.__init__
InitialSilNames(s) ==
    CASE s = "program" -> <<>>
      [] s = "class" -> <<>>
      [] s = "method" -> << <<"_", "r", "e", "s">>, <<"_", "e", "r", "r">>,
                            <<"_", "_", "e", "n", "d">> >>

Digits == <<"0", "1", "2", "3", "4", "5", "6", "7", "8", "9">>

\* str(counter) for counter >= 0
RECURSIVE Str(_)
Str(n) ==
    IF n < 10
    THEN <<Digits[n + 1]>>
    ELSE Str(n \div 10) \o <<Digits[(n % 10) + 1]>>

\* name + '_' + str(counter)
Suffixed(name, counter) == name \o <<"_">> \o Str(counter)

ContainsNameLocal(s, name, sil_names) == name \in Range(sil_names[s])

RECURSIVE contains_name(_, _, _)
contains_name(s, name, sil_names) ==
    LET result == name \in Range(sil_names[s])
    IN IF superscope(s) # "None"
       THEN result \/ contains_name(superscope(s), name, sil_names)
       ELSE result

\* the while loop of get_fresh_name
RECURSIVE FreshCounter(_, _, _, _)
FreshCounter(s, name, counter, sil_names) ==
    IF contains_name(s, Suffixed(name, counter), sil_names)
    THEN FreshCounter(s, name, counter + 1, sil_names)
    ELSE counter

\* the name get_fresh_name returns
get_fresh_name(s, name, sil_names) ==
    IF contains_name(s, name, sil_names)
    THEN Suffixed(name, FreshCounter(s, name, 0, sil_names))
    ELSE name

\* The names requested
BaseNames == {<<"f">>, <<"f", "_", "0">>, <<"_", "r", "e", "s">>}

FrameScope ==
    UNCHANGED
        <<bigint, arith, verifier, server, fold, harness, errmgr, checker,
          typing, preproc, literal, oblig, cli,
          registry,
          builder,
          frontend,
          success,
          trycatch,
          sif,
          interp,
          oldscope>>

ScopeInit == scope = [pc |-> "idle"]

\* PythonProgram(), PythonClass(..., program), PythonMethod(..., class)
ScopeConstruct ==
    /\ scope.pc = "idle"
    /\ scope' = [pc |-> "constructed",
                 sil_names |-> [s \in Scopes |-> InitialSilNames(s)],
                 before |-> [s \in Scopes |-> InitialSilNames(s)],
                 returned |-> <<>>]
    /\ FrameScope

\* s.get_fresh_name(name): the name is appended to the scope's own list
GetFreshName(s, name) ==
    /\ scope.pc = "constructed"
    /\ Len(scope.returned) < MaxFreshCalls
    /\ LET new_name == get_fresh_name(s, name, scope.sil_names)
       IN scope' = [scope EXCEPT
                      !.sil_names[s] = Append(@, new_name),
                      !.before = scope.sil_names,
                      !.returned = Append(@, [scope |-> s, name |-> name,
                                              result |-> new_name])]
    /\ FrameScope

NextScope ==
    \/ ScopeConstruct
    \/ \E s \in Scopes, name \in BaseNames : GetFreshName(s, name)

(***************************************************************************)
(* AnnotatedTests and VerificationTests  (py2viper_translation/tests.py)   *)
(*                                                                         *)
(* A string is the sequence of its characters.  A token is a record with   *)
(* type, string and start = <<line, column>>; a verification error has an  *)
(* identifier and, when haspos, a line and a column.  The outcome of a     *)
(* test is passed, or the assert statement that failed.                    *)
(***************************************************************************)
MaxLine == 2

MaxErrors == 2

MaxIds == 2

Whitespace == {" ", "\t"}

\* str.strip()
RECURSIVE LStrip(_)
LStrip(s) ==
    IF s # <<>> /\ Head(s) \in Whitespace THEN LStrip(Tail(s)) ELSE s

RECURSIVE RStrip(_)
RStrip(s) ==
    IF s # <<>> /\ s[Len(s)] \in Whitespace
    THEN RStrip(SubSeq(s, 1, Len(s) - 1))
    ELSE s

strip(s) == RStrip(LStrip(s))

\* str.startswith, str.endswith
startswith(s, prefix) ==
    Len(s) >= Len(prefix) /\ SubSeq(s, 1, Len(prefix)) = prefix

endswith(s, suffix) ==
    Len(s) >= Len(suffix)
        /\ SubSeq(s, Len(s) - Len(suffix) + 1, Len(s)) = suffix

\* s[start:stop] for start >= 0: a negative stop counts from the end and
\* both ends are clipped to the string
Slice(s, start, stop) ==
    LET n == Len(s)
        counted == IF stop < 0 THEN stop + n ELSE stop
        hi == IF counted < 0 THEN 0 ELSE IF counted > n THEN n ELSE counted
        lo == IF start > n THEN n ELSE start
    IN IF lo >= hi THEN <<>> ELSE SubSeq(s, lo + 1, hi)

\* s.split(sep) for a separator of one character
RECURSIVE SplitFrom(_, _, _)
SplitFrom(s, sep, current) ==
    IF s = <<>>
    THEN <<current>>
    ELSE IF Head(s) = sep
         THEN <<current>> \o SplitFrom(Tail(s), sep, <<>>)
         ELSE SplitFrom(Tail(s), sep, Append(current, Head(s)))

split(s, sep) == SplitFrom(s, sep, <<>>)

\* the list of the elements of the lists
RECURSIVE flatten(_)
flatten(lists) ==
    IF lists = <<>> THEN <<>> ELSE Head(lists) \o flatten(Tail(lists))

AnnotationMarker == <<"#", ":", ":", " ">>

ExpectedOutputOpen ==
    <<"E", "x", "p", "e", "c", "t", "e", "d",
      "O", "u", "t", "p", "u", "t", "(">>

is_annotation(tk) ==
    /\ tk.type = "COMMENT"
    /\ startswith(strip(tk.string), AnnotationMarker)
    /\ endswith(strip(tk.string), <<")">>)

get_test_annotations(tokens) == SelectSeq(tokens, is_annotation)

TokenToExpectedUnsplit(token) ==
    LET content == Slice(strip(token.string), 4, Len(strip(token.string)))
    IN << <<token.start, Slice(content, 15, Len(content) - 1)>> >>

token_to_expected(token) ==
    LET content == Slice(strip(token.string), 4, Len(strip(token.string)))
        strippedlist == split(content, ";")
    IN [i \in DOMAIN strippedlist |->
           <<token.start,
             Slice(strippedlist[i], 15, Len(strippedlist[i]) - 1)>>]

failure_to_actual(error) ==
    << <<error.line, error.column>>, error.id, error.message >>

Passed == [passed |-> TRUE, failed |-> "none"]

AssertionError(assertion) == [passed |-> FALSE, failed |-> assertion]

CompareActualOnly(actual, expected) ==
    LET Unexpected(ae) == <<ae[1] - 1, ae[2]>> \notin Range(expected)
        actual_unexpected == SelectSeq(actual, Unexpected)
    IN IF actual_unexpected # <<>>
       THEN AssertionError("not actual_unexpected")
       ELSE Passed

compare_actual_expected(actual, expected) ==
    LET Unexpected(ae) == <<ae[1] - 1, ae[2]>> \notin Range(expected)
        Missing(ee) == <<ee[1] + 1, ee[2]>> \notin Range(actual)
        actual_unexpected == SelectSeq(actual, Unexpected)
        missing_expected == SelectSeq(expected, Missing)
    IN IF actual_unexpected # <<>>
       THEN AssertionError("not actual_unexpected")
       ELSE IF missing_expected # <<>>
            THEN AssertionError("not missing_expected")
            ELSE Passed

\* expected and expected_lo of evaluate_result
IsExpectedOutput(ann) ==
    startswith(strip(ann.string), AnnotationMarker \o ExpectedOutputOpen)

ExpectedOf(tokens) ==
    LET test_annotations == get_test_annotations(tokens)
        selected == SelectSeq(test_annotations, IsExpectedOutput)
    IN flatten([i \in DOMAIN selected |-> token_to_expected(selected[i])])

ExpectedLo(expected) ==
    [i \in DOMAIN expected |-> <<expected[i][1][1], expected[i][2]>>]

\* evaluate_result: the outcome with the lists that were compared
HasNoLineColumn(error) == ~error.haspos

HasLineColumn(error) == error.haspos

evaluate_result(vresult, tokens) ==
    LET expected == ExpectedOf(tokens)
        expected_lo == ExpectedLo(expected)
        missing_info == SelectSeq(vresult.errors, HasNoLineColumn)
        located == SelectSeq(vresult.errors, HasLineColumn)
        actual == [i \in DOMAIN located |-> failure_to_actual(located[i])]
        actual_lo == [i \in DOMAIN actual |-> <<actual[i][1][1], actual[i][2]>>]
    IN IF vresult.success
       THEN [outcome |-> IF expected # <<>>
                         THEN AssertionError("not expected") ELSE Passed,
             expected_lo |-> expected_lo, actual_lo |-> <<>>,
             missing_info |-> <<>>]
       ELSE [outcome |-> IF missing_info # <<>>
                         THEN AssertionError("not missing_info")
                         ELSE compare_actual_expected(actual_lo, expected_lo),
             expected_lo |-> expected_lo, actual_lo |-> actual_lo,
             missing_info |-> missing_info]

\* The identifiers, annotation comments, files and results of the tests
IdA == <<"a">>

IdBC == <<"b", ":", "c">>

Identifiers == {IdA, IdBC}

RECURSIVE Join(_, _)
Join(parts, sep) ==
    IF parts = <<>> THEN <<>>
    ELSE IF Len(parts) = 1 THEN parts[1]
    ELSE parts[1] \o sep \o Join(Tail(parts), sep)

\* #:: ExpectedOutput(id1;...;idn)
ListedAnnotation(ids) ==
    AnnotationMarker \o ExpectedOutputOpen \o Join(ids, <<";">>) \o <<")">>

\* #:: ExpectedOutput(id1);...;ExpectedOutput(idn)
RepeatedAnnotation(ids) ==
    AnnotationMarker
        \o Join([i \in DOMAIN ids |-> ExpectedOutputOpen \o ids[i] \o <<")">>],
                <<";">>)

AnnotationForms == {"listed", "repeated"}

Annotation(form, ids) ==
    IF form = "listed" THEN ListedAnnotation(ids) ELSE RepeatedAnnotation(ids)

IdLists == SeqsUpTo(Identifiers, MaxIds) \ {<<>>}

Comment(line, string) ==
    [type |-> "COMMENT", string |-> string, start |-> <<line, 0>>]

CommentSamples ==
    {ListedAnnotation(<<IdA>>),
     RepeatedAnnotation(<<IdA, IdBC>>),
     ListedAnnotation(<<IdA, IdBC>>),
     AnnotationMarker \o <<"L", "a", "b", "e", "l", "(", "a", ")">>,
     <<"#", " ", "a", ")">>}

Lines == 1..MaxLine

\* at most one comment on a line, the tokens in the order of the lines
RECURSIVE TokensFrom(_, _)
TokensFrom(comments, line) ==
    IF line > MaxLine THEN <<>>
    ELSE (IF comments[line] = <<>>
          THEN <<[type |-> "NAME", string |-> <<"x">>, start |-> <<line, 0>>]>>
          ELSE <<Comment(line, comments[line])>>)
             \o TokensFrom(comments, line + 1)

TestFiles ==
    {TokensFrom(c, 1) : c \in [Lines -> CommentSamples \cup {<<>>}]}

Located(line, id) ==
    [haspos |-> TRUE, line |-> line, column |-> 0, id |-> id, message |-> "m"]

Errors ==
    {Located(l, i) : l \in Lines, i \in Identifiers}
      \cup {[haspos |-> FALSE, line |-> 0, column |-> 0, id |-> IdA,
             message |-> "m"]}

VerificationResults ==
    {[success |-> TRUE, errors |-> <<>>]}
        \cup {[success |-> FALSE, errors |-> e] : e \in SeqsUpTo(Errors, MaxErrors)}

LineIdPairs == {<<l, i>> : l \in Lines, i \in Identifiers}

FrameHarness ==
    UNCHANGED
        <<bigint, arith, verifier, server, fold, scope, errmgr, checker,
          typing, preproc, literal, oblig, cli,
          registry,
          builder,
          frontend,
          success,
          trycatch,
          sif,
          interp,
          oldscope>>

HarnessInit == harness = [pc |-> "idle"]

\* the expectations recorded for a file whose only comment is the
\* annotation of the identifiers ids on the given line
RecordExpected(form, ids, line, trailing) ==
    /\ harness.pc = "idle"
    /\ LET string == Annotation(form, ids)
                        \o (IF trailing THEN <<" ">> ELSE <<>>)
       IN harness' = [pc |-> "recorded", form |-> form, ids |-> ids,
                      line |-> line, string |-> string,
                      expected_lo |->
                          ExpectedLo(ExpectedOf(<<Comment(line, string)>>))]
    /\ FrameHarness

CompareActualExpected(actual, expected) ==
    /\ harness.pc = "idle"
    /\ harness' = [pc |-> "compared", actual |-> actual, expected |-> expected,
                   outcome |-> compare_actual_expected(actual, expected)]
    /\ FrameHarness

EvaluateResult(vresult, tokens) ==
    /\ harness.pc = "idle"
    /\ harness' = [pc |-> "evaluated", vresult |-> vresult, tokens |-> tokens,
                   result |-> evaluate_result(vresult, tokens)]
    /\ FrameHarness

\* one test is run from idle
NextHarness ==
    /\ harness.pc = "idle"
    /\ \/ \E form \in AnnotationForms, ids \in IdLists, line \in Lines,
             trailing \in BOOLEAN : RecordExpected(form, ids, line, trailing)
       \/ \E actual \in SeqsUpTo(LineIdPairs, MaxErrors),
             expected \in SeqsUpTo(LineIdPairs, MaxErrors) :
                 CompareActualExpected(actual, expected)
       \/ \E vresult \in VerificationResults, tokens \in TestFiles :
             EvaluateResult(vresult, tokens)

(***************************************************************************)
(* ErrorManager.transformError  (nagini_translation/lib/errors/manager.py) *)
(*                                                                         *)
(* The backend's errors are the numbers 1..MaxBackendErrors, compared as   *)
(* the backend compares them, and 0 is None; transformed maps an error to  *)
(* its transformedError().  The loop of transformError is run step by      *)
(* step.                                                                   *)
(* previous is the result of the call before the current one on the same   *)
(* manager.                                                                *)
(***************************************************************************)
MaxBackendErrors == 3

BackendErrors == 1..MaxBackendErrors

\* None, which is no error of the backend
None == 0

FrameErrMgr ==
    UNCHANGED
        <<bigint, arith, verifier, server, fold, scope, harness, checker,
          typing, preproc, literal, oblig, cli,
          registry,
          builder,
          frontend,
          success,
          trycatch,
          sif,
          interp,
          oldscope>>

ErrMgrInit == errmgr = [pc |-> "idle"]

\* old_error = None; the loop is entered
TransformErrorCall(error, transformed, previous) ==
    [pc |-> "loop", transformed |-> transformed, input |-> error,
     old_error |-> None, error |-> error, previous |-> previous]

\* _convert_error calls transformError on an error of the backend
ConvertError(error, transformed) ==
    /\ errmgr.pc = "idle"
    /\ errmgr' = TransformErrorCall(error, transformed, None)
    /\ FrameErrMgr

\* transformError is called on the error it returned
TransformErrorAgain ==
    /\ errmgr.pc = "returned"
    /\ errmgr.previous = None
    /\ errmgr' = TransformErrorCall(errmgr.error, errmgr.transformed,
                                    errmgr.error)
    /\ FrameErrMgr

LoopConditionAlways(old_error, error) == TRUE

\* while old_error != error
LoopCondition(old_error, error) == old_error # error

\* old_error = error; error = error.transformedError()
TransformErrorIterate ==
    /\ errmgr.pc = "loop"
    /\ LoopCondition(errmgr.old_error, errmgr.error)
    /\ errmgr' = [errmgr EXCEPT
                    !.old_error = errmgr.error,
                    !.error = errmgr.transformed[errmgr.error]]
    /\ FrameErrMgr

\* return error
TransformErrorReturn ==
    /\ errmgr.pc = "loop"
    /\ ~LoopCondition(errmgr.old_error, errmgr.error)
    /\ errmgr' = [errmgr EXCEPT !.pc = "returned"]
    /\ FrameErrMgr

TransformErrorStep == TransformErrorIterate \/ TransformErrorReturn

NextErrMgr ==
    \/ \E error \in BackendErrors,
          transformed \in [BackendErrors -> BackendErrors] :
              ConvertError(error, transformed)
    \/ TransformErrorAgain
    \/ TransformErrorStep

(***************************************************************************)
(* StructureChecker  (twovyper/analysis/structure_checker.py)              *)
(*                                                                         *)
(* A clause of the program (an invariant, a general check, a general or a  *)
(* transitive postcondition) is visited under its context; function is     *)
(* None for these clauses.  Nodes are records: Name, Attribute, Set, Dict  *)
(* and FunctionCall with name, args and keywords.  An error code is the    *)
(* sequence of its parts (f'{ctx.value}.call' is <<ctx, "call">>) and <<>> *)
(* is no error.  A result is the error raised, if any, with the list of    *)
(* the visits <<node, ctx>> made up to then.  The names of the calls and   *)
(* the table of the calls forbidden per context are not part of the        *)
(* checker: the table is an input, which may forbid any call anywhere.     *)
(* The calls success, accessible, independent and raw_call and calls with  *)
(* a resource are not among the calls of the clauses.                      *)
(***************************************************************************)
MaxQuantifierDepth == 2

CODE == "code"

INVARIANT == "invariant"

CHECK == "check"

POSTCONDITION == "postcondition"

TRANSITIVE_POSTCONDITION == "transitive.postcondition"

GHOST_CODE == "ghost.code"

GHOST_FUNCTION == "ghost.function"

GHOST_STATEMENT == "ghost.statement"

Contexts ==
    {CODE, INVARIANT, CHECK, POSTCONDITION, TRANSITIVE_POSTCONDITION,
     GHOST_CODE, GHOST_FUNCTION, GHOST_STATEMENT}

MSG == "msg"

BLOCK == "block"

FORALL == "forall"

FOREACH == "foreach"

OLD == "old"

GHOST_STATEMENTS == {"create", "foreach"}

QUANTIFIED_GHOST_STATEMENTS == {"create"}

ALLOCATION_FUNCTIONS == {"create"}

Attribute(value, attr) == [kind |-> "Attribute", value |-> value, attr |-> attr]

SetNode(elements) == [kind |-> "Set", elements |-> elements]

DictNode(keys) == [kind |-> "Dict", keys |-> keys]

FunctionCall(name, args) ==
    [kind |-> "FunctionCall", name |-> name, args |-> args, keywords |-> <<>>]

Visited(node, ctx) == [error |-> <<>>, visits |-> << <<node, ctx>> >>]

NothingVisited == [error |-> <<>>, visits |-> <<>>]

\* _assert fails: InvalidProgramException with the error code
Invalid(code) == [error |-> code, visits |-> <<>>]

\* first, and then second unless first raised
AndThen(first, second) ==
    IF first.error # <<>>
    THEN first
    ELSE [error |-> second.error, visits |-> first.visits \o second.visits]

\* visit_Name
NameError(node, ctx) ==
    IF ctx = INVARIANT /\ node.id = MSG THEN <<"invariant.msg">>
    ELSE IF ctx = INVARIANT /\ node.id = BLOCK THEN <<"invariant.block">>
    ELSE IF ctx = TRANSITIVE_POSTCONDITION /\ node.id = MSG
         THEN <<"postcondition.msg">>
    ELSE <<>>

QuantifierContextReset(ctx) == CODE

\* the context under which a quantifier visits its triggers and its body
QuantifierContext(ctx) == ctx

\* arg_ctx
ArgumentContext(name, ctx) ==
    IF name \in GHOST_STATEMENTS THEN GHOST_STATEMENT ELSE ctx

RECURSIVE StructureVisit(_, _, _)
RECURSIVE VisitNodes(_, _, _)
RECURSIVE VisitTriggers(_, _, _)
RECURSIVE visit_FunctionCall(_, _, _)

\* NodeVisitor.visit: visit_Name and visit_FunctionCall, and the children
\* of every other node under the same context
StructureVisit(node, ctx, env) ==
    CASE node.kind = "Name" ->
            [error |-> NameError(node, ctx), visits |-> << <<node, ctx>> >>]
      [] node.kind = "FunctionCall" ->
            AndThen(Visited(node, ctx), visit_FunctionCall(node, ctx, env))
      [] node.kind = "Attribute" ->
            AndThen(Visited(node, ctx), StructureVisit(node.value, ctx, env))
      [] node.kind = "Set" ->
            AndThen(Visited(node, ctx), VisitNodes(node.elements, ctx, env))
      [] node.kind = "Dict" ->
            AndThen(Visited(node, ctx), VisitNodes(node.keys, ctx, env))

VisitNodes(nodes, ctx, env) ==
    IF nodes = <<>>
    THEN NothingVisited
    ELSE AndThen(StructureVisit(Head(nodes), ctx, env),
                 VisitNodes(Tail(nodes), ctx, env))

\* for trigger in node.args[1:len(node.args) - 1]
VisitTriggers(triggers, ctx, env) ==
    IF triggers = <<>>
    THEN NothingVisited
    ELSE IF Head(triggers).kind # "Set"
         THEN Invalid(<<"invalid", "quantifier">>)
         ELSE AndThen(StructureVisit(Head(triggers), QuantifierContext(ctx), env),
                      VisitTriggers(Tail(triggers), ctx, env))

visit_FunctionCall(node, ctx, env) ==
    IF node.name \in env.allowed[ctx]
    THEN Invalid(<<ctx, "call">>)
    ELSE IF node.name \in {FORALL, FOREACH}
    THEN IF ~(Len(node.args) >= 2 /\ node.keywords = <<>>)
         THEN Invalid(<<"invalid.no.args">>)
         ELSE IF node.args[1].kind # "Dict"
         THEN Invalid(<<"invalid", "quantifier">>)
         ELSE IF \E i \in DOMAIN node.args[1].keys :
                     node.args[1].keys[i].kind # "Name"
         THEN Invalid(<<"invalid", "quantifier">>)
         ELSE LET triggers == SubSeq(node.args, 2, Len(node.args) - 1)
                  body == node.args[Len(node.args)]
                  checked == VisitTriggers(triggers, ctx, env)
              IN IF checked.error # <<>>
                 THEN checked
                 ELSE IF node.name = FOREACH
                         /\ ~(body.kind = "FunctionCall"
                                /\ body.name \in QUANTIFIED_GHOST_STATEMENTS)
                 THEN AndThen(checked, Invalid(<<"invalid.foreach">>))
                 ELSE AndThen(checked,
                              StructureVisit(body, QuantifierContext(ctx), env))
    ELSE IF node.name = OLD
    THEN VisitNodes(node.args \o node.keywords, ctx, env)
    ELSE IF node.name \in ALLOCATION_FUNCTIONS /\ ~env.allocation
    THEN Invalid(<<"alloc.not.alloc">>)
    ELSE VisitNodes(node.args \o node.keywords,
                    ArgumentContext(node.name, ctx), env)

\* The clauses: the contexts of program-level clauses, the forbidden-call
\* tables and the expressions up to a quantifier nesting depth
ClauseContexts == {INVARIANT, CHECK, POSTCONDITION, TRANSITIVE_POSTCONDITION}

ForbiddenInClause == {{}, {"send"}, {"send", "create"}, {"foreach"}}

ForbiddenInGhostStatement == {{}, {"send"}}

AllowedTable(ctx, inClause, inGhostStatement) ==
    [c \in Contexts |->
        IF c = ctx THEN inClause
        ELSE IF c = GHOST_STATEMENT THEN inGhostStatement ELSE {}]

Bound == DictNode(<<Name("x")>>)

Forall(triggers, body) == FunctionCall(FORALL, <<Bound>> \o triggers \o <<body>>)

Foreach(body) == FunctionCall(FOREACH, <<Bound, body>>)

PlainExprs ==
    {Name(MSG), Name(BLOCK), Name("x"), Attribute(Name(MSG), "sender"),
     FunctionCall("send", <<Name("x")>>),
     FunctionCall("sum", <<Name(MSG)>>)}

Triggers == {<<>>, <<SetNode(<<Name(MSG)>>)>>, <<Name("x")>>}

RECURSIVE ExprsOfDepth(_)
ExprsOfDepth(d) ==
    IF d = 0
    THEN PlainExprs
    ELSE LET inner == ExprsOfDepth(d - 1)
         IN inner
              \cup {Forall(<<>>, body) : body \in inner}
              \cup {Forall(t, Name("x")) : t \in Triggers}
              \cup {Foreach(FunctionCall("create", <<e>>)) :
                       e \in {Name(MSG), Name("x"),
                              FunctionCall("send", <<Name("x")>>)}}
              \cup {Foreach(Name("x")), FunctionCall(FORALL, <<Bound>>),
                    FunctionCall("old", <<Forall(<<>>, Name(BLOCK))>>)}

Clauses == ExprsOfDepth(MaxQuantifierDepth)

FrameChecker ==
    UNCHANGED
        <<bigint, arith, verifier, server, fold, scope, harness, errmgr,
          typing, preproc, literal, oblig, cli,
          registry,
          builder,
          frontend,
          success,
          trycatch,
          sif,
          interp,
          oldscope>>

CheckerInit == checker = [pc |-> "idle"]

\* check: self.visit(clause, ctx, program, None) for one clause
CheckClause(clause, ctx, allowed, allocation) ==
    /\ checker' = [pc |-> "checked", clause |-> clause, ctx |-> ctx,
                   allowed |-> allowed, allocation |-> allocation,
                   result |-> StructureVisit(clause, ctx,
                                  [allowed |-> allowed,
                                   allocation |-> allocation])]
    /\ FrameChecker

NextChecker ==
    /\ checker.pc = "idle"
    /\ \E clause \in Clauses, ctx \in ClauseContexts,
          inClause \in ForbiddenInClause,
          inGhostStatement \in ForbiddenInGhostStatement,
          allocation \in BOOLEAN :
              CheckClause(clause, ctx,
                          AllowedTable(ctx, inClause, inGhostStatement),
                          allocation)

(***************************************************************************)
(* Types and the type annotator  (twovyper/ast/types.py,                   *)
(* twovyper/analysis/type_annotator.py)                                    *)
(*                                                                         *)
(* A type is a record of its class, its id and the fields of its class.    *)
(* The id is the string its constructor formats, kept as the sequence of   *)
(* its pieces; two types are equal when their ids are (VyperType.__eq__).  *)
(* A StringType is an ArrayType of bytes that is not strict, with the id   *)
(* string[size].  combine works on the candidate lists types1 and types2   *)
(* its two operands were visited to.                                       *)
(***************************************************************************)
MaxCapacity == 3

MaxCandidates == 2

PrimitiveType(name) == [class |-> "PrimitiveType", id |-> <<name>>, name |-> name]

VYPER_BOOL == PrimitiveType("bool")

INT128 == PrimitiveType(VYPER_INT128)

UINT256 == PrimitiveType(VYPER_UINT256)

DECIMAL ==
    [class |-> "DecimalType", id |-> <<VYPER_DECIMAL>>, name |-> VYPER_DECIMAL]

VYPER_ADDRESS == PrimitiveType("address")

VYPER_BYTE == PrimitiveType("byte")

ArrayType(element_type, size, is_strict) ==
    [class |-> "ArrayType",
     id |-> element_type.id
              \o <<"[", IF is_strict THEN "" ELSE "<=">> \o Str(size) \o <<"]">>,
     element_type |-> element_type, size |-> size, is_strict |-> is_strict]

StringType(size) ==
    [class |-> "StringType",
     id |-> <<"string", "[">> \o Str(size) \o <<"]">>,
     element_type |-> VYPER_BYTE, size |-> size, is_strict |-> FALSE]

StructType(name) == [class |-> "StructType", id |-> <<"struct ", name>>, name |-> name]

ContractType(name) ==
    [class |-> "ContractType", id |-> <<"contract ", name>>, name |-> name]

\* VyperType.__eq__
TypeEq(t, other) == t.id = other.id

\* isinstance(t, ArrayType)
IsArrayType(t) == t.class \in {"ArrayType", "StringType"}

is_numeric(type) ==
    TypeEq(type, INT128) \/ TypeEq(type, UINT256)
        \/ TypeEq(type, DECIMAL)

is_integer(type) == TypeEq(type, INT128) \/ TypeEq(type, UINT256)

MatchesEqualOnly(t, m) == TypeEq(t, m)

matches(t, m) ==
    LET a1 == IsArrayType(t) /\ ~t.is_strict
        a2 == IsArrayType(m) /\ ~m.is_strict
    IN IF a1 /\ a2 /\ TypeEq(t.element_type, m.element_type)
       THEN t.size <= m.size
       ELSE IF is_integer(t) /\ is_integer(m)
       THEN TRUE
       ELSE IF t.class = "ContractType" /\ TypeEq(m, VYPER_ADDRESS)
       THEN TRUE
       ELSE TypeEq(t, m)

is_array(t) == IsArrayType(t) /\ ~t.is_strict

\* [x for x in lst if keep(x)] for the two filters of combine
RECURSIVE MatchingArrays(_, _)
MatchingArrays(matching, lst) ==
    IF lst = <<>>
    THEN <<>>
    ELSE LET rest == MatchingArrays(matching, Tail(lst))
         IN IF is_array(Head(lst))
               /\ TypeEq(Head(lst).element_type, matching.element_type)
            THEN <<Head(lst)>> \o rest
            ELSE rest

\* max(arrays, key=lambda t: t.size): the first of the largest
RECURSIVE MaxBySize(_)
MaxBySize(arrays) ==
    IF Len(arrays) = 1
    THEN arrays[1]
    ELSE LET rest == MaxBySize(Tail(arrays))
         IN IF rest.size > arrays[1].size THEN rest ELSE arrays[1]

WrongType == [error |-> <<"wrong.type">>, types |-> <<>>]

Yield(types) == [error |-> <<>>, types |-> types]

longest_array(matching, lst) ==
    LET arrays == MatchingArrays(matching, lst)
    IN IF arrays = <<>> THEN WrongType ELSE Yield(<<MaxBySize(arrays)>>)

\* the types one e of l1 yields against l2
RECURSIVE MatchesAgainst(_, _)
MatchesAgainst(e, l2) ==
    IF l2 = <<>>
    THEN <<>>
    ELSE LET t == Head(l2)
             rest == MatchesAgainst(e, Tail(l2))
         IN IF matches(e, t) THEN <<e>> \o rest
            ELSE IF matches(t, e) THEN <<t>> \o rest
            ELSE rest

RECURSIVE intersect(_, _)
intersect(l1, l2) ==
    IF l1 = <<>>
    THEN Yield(<<>>)
    ELSE LET e == Head(l1)
             first == IF is_array(e)
                      THEN longest_array(e, l2)
                      ELSE Yield(MatchesAgainst(e, l2))
             rest == intersect(Tail(l1), l2)
         IN IF first.error # <<>> THEN first
            ELSE IF rest.error # <<>> THEN rest
            ELSE Yield(first.types \o rest.types)

\* the predicates combine is called with: lambda t: True and is_numeric
Allowed(allowed, t) == IF allowed = "is_numeric" THEN is_numeric(t) ELSE TRUE

RECURSIVE Filter(_, _)
Filter(allowed, lst) ==
    IF lst = <<>>
    THEN <<>>
    ELSE IF Allowed(allowed, Head(lst))
         THEN <<Head(lst)>> \o Filter(allowed, Tail(lst))
         ELSE Filter(allowed, Tail(lst))

combine(types1, types2, allowed) ==
    LET yielded == intersect(types1, types2)
    IN IF yielded.error # <<>>
       THEN yielded
       ELSE LET intersection == Filter(allowed, yielded.types)
            IN IF intersection = <<>> THEN WrongType ELSE Yield(intersection)

Capacities == 1..MaxCapacity

ArrayTypes ==
    {ArrayType(e, n, s) :
        e \in {VYPER_BYTE, INT128}, n \in Capacities, s \in BOOLEAN}
      \cup {StringType(n) : n \in Capacities}
      \cup {ArrayType(VYPER_BYTE, 5, FALSE), ArrayType(VYPER_BYTE, 10, FALSE)}

Types ==
    {VYPER_BOOL, INT128, UINT256, DECIMAL, VYPER_ADDRESS,
     VYPER_BYTE, StructType("C"), ContractType("C"), ContractType("D")}
      \cup ArrayTypes

CandidateTypes ==
    {INT128, UINT256, VYPER_ADDRESS, ArrayType(INT128, 1, FALSE)}
      \cup {ArrayType(VYPER_BYTE, n, FALSE) : n \in Capacities}

Candidates == SeqsUpTo(CandidateTypes, MaxCandidates) \ {<<>>}

FrameTyping ==
    UNCHANGED
        <<bigint, arith, verifier, server, fold, scope, harness, errmgr,
          checker, preproc, literal, oblig, cli,
          registry,
          builder,
          frontend,
          success,
          trycatch,
          sif,
          interp,
          oldscope>>

TypingInit == typing = [pc |-> "idle"]

Matches(t, m) ==
    /\ typing' = [pc |-> "matched", t |-> t, m |-> m, result |-> matches(t, m)]
    /\ FrameTyping

Combine(types1, types2, allowed) ==
    /\ typing' = [pc |-> "combined", types1 |-> types1, types2 |-> types2,
                  allowed |-> allowed,
                  result |-> combine(types1, types2, allowed)]
    /\ FrameTyping

NextTyping ==
    /\ typing.pc = "idle"
    /\ \/ \E t \in Types, m \in Types : Matches(t, m)
       \/ \E types1 \in Candidates, types2 \in Candidates,
             allowed \in {"any", "is_numeric"} :
               Combine(types1, types2, allowed)

(***************************************************************************)
(* preprocess  (twovyper/parsing/preprocessor.py)                          *)
(*                                                                         *)
(* The program is the sequence of its characters.  A pattern is the        *)
(* sequence of its items, a character or "\\s*"; in every pattern of       *)
(* preprocess "\\s*" is followed by a character that is no whitespace, so  *)
(* the greedy match of re needs no backtracking.  re.sub replaces the      *)
(* leftmost matches from left to right, none overlapping another.          *)
(***************************************************************************)
MaxWhitespace == 2

\* the characters \s matches, those of a program
RegexWhitespace == {" ", "\t", "\n"}

AnyWhitespace == "\\s*"

RECURSIVE Spaces(_)
Spaces(n) == IF n <= 0 THEN <<>> ELSE <<" ">> \o Spaces(n - 1)

\* (match_length - old_length) * ' '
padding(old_length, match_length) == Spaces(match_length - old_length)

ReplacementUnpadded(start, end, match_length) == start \o end

\* f'{start}{padding(old_length, len(m.group(0)))}{end}'
replacement(start, end, match_length) ==
    LET old_length == Len(start) + Len(end)
    IN start \o padding(old_length, match_length) \o end

RECURSIVE SkipWhitespace(_, _)
SkipWhitespace(program, i) ==
    IF i <= Len(program) /\ program[i] \in RegexWhitespace
    THEN SkipWhitespace(program, i + 1)
    ELSE i

\* the index after the match of the pattern at i, or 0 when it does not match
RECURSIVE MatchEnd(_, _, _)
MatchEnd(program, i, pattern) ==
    IF pattern = <<>>
    THEN i
    ELSE IF Head(pattern) = AnyWhitespace
    THEN MatchEnd(program, SkipWhitespace(program, i), Tail(pattern))
    ELSE IF i <= Len(program) /\ program[i] = Head(pattern)
    THEN MatchEnd(program, i + 1, Tail(pattern))
    ELSE 0

\* re.sub(regex, repl, program, flags=re.MULTILINE) from index i on
RECURSIVE SubFrom(_, _, _, _, _)
SubFrom(program, i, regex, start, end) ==
    IF i > Len(program)
    THEN <<>>
    ELSE LET e == MatchEnd(program, i, regex)
         IN IF e # 0
            THEN replacement(start, end, e - i)
                    \o SubFrom(program, e, regex, start, end)
            ELSE <<program[i]>> \o SubFrom(program, i + 1, regex, start, end)

replace(program, rewrite) ==
    SubFrom(program, 1, rewrite.regex, rewrite.start, rewrite.end)

Colon == <<AnyWhitespace, ":">>

Marker(keyword) == <<"#", "@", AnyWhitespace>> \o keyword

Config == <<"c", "o", "n", "f", "i", "g">>

Interface == <<"i", "n", "t", "e", "r", "f", "a", "c", "e">>

Ghost == <<"g", "h", "o", "s", "t">>

Resource == <<"r", "e", "s", "o", "u", "r", "c", "e">>

Ensures == <<"e", "n", "s", "u", "r", "e", "s">>

Check == <<"c", "h", "e", "c", "k">>

Performs == <<"p", "e", "r", "f", "o", "r", "m", "s">>

Invariant == <<"i", "n", "v", "a", "r", "i", "a", "n", "t">>

Always == <<"a", "l", "w", "a", "y", "s">>

Preserves == <<"p", "r", "e", "s", "e", "r", "v", "e", "s">>

Rewrite(regex, start, end) == [regex |-> regex, start |-> start, end |-> end]

\* the calls of replace, in their order
Rewrites ==
    <<Rewrite(Marker(Config) \o Colon, Config, <<"=">>),
      Rewrite(Marker(Interface), Interface, <<"=", "T", "r", "u", "e">>),
      Rewrite(Marker(Ghost) \o Colon, <<"w", "i", "t", "h", "(", "g", ")">>, <<":">>),
      Rewrite(Marker(Resource) \o Colon, <<"d", "e", "f", " ">>, <<>>),
      Rewrite(Marker(Ensures) \o Colon, Ensures, <<"=">>),
      Rewrite(Marker(Check) \o Colon, Check, <<"=">>),
      Rewrite(Marker(Performs) \o Colon, Performs, <<"=">>),
      Rewrite(Marker(Invariant) \o Colon, Invariant, <<"=">>),
      Rewrite(Marker(Always) \o <<AnyWhitespace>> \o Ensures \o Colon,
              Always \o <<"_">> \o Ensures, <<"=">>),
      Rewrite(Marker(Always) \o <<AnyWhitespace>> \o Check \o Colon,
              Always \o <<"_">> \o Check, <<"=">>),
      Rewrite(Marker(Preserves) \o Colon, <<"i", "f", " ", "F", "a", "l", "s", "e">>, <<":">>)>>

RECURSIVE PreprocessFrom(_, _)
PreprocessFrom(program, k) ==
    IF k > Len(Rewrites)
    THEN program
    ELSE PreprocessFrom(replace(program, Rewrites[k]), k + 1)

preprocess(program) == PreprocessFrom(program, 1)

\* The programs: one marker, written with some whitespace for every "\\s*"
\* of its pattern, between a text before it and a text after it
WhitespaceRuns == SeqsUpTo({" ", "\n"}, MaxWhitespace)

RECURSIVE Written(_, _)
Written(regex, runs) ==
    IF regex = <<>>
    THEN <<>>
    ELSE IF Head(regex) = AnyWhitespace
    THEN Head(runs) \o Written(Tail(regex), Tail(runs))
    ELSE <<Head(regex)>> \o Written(Tail(regex), runs)

RECURSIVE CountWhitespaceItems(_)
CountWhitespaceItems(regex) ==
    IF regex = <<>>
    THEN 0
    ELSE (IF Head(regex) = AnyWhitespace THEN 1 ELSE 0)
            + CountWhitespaceItems(Tail(regex))

TextsBefore == {<<>>, <<"x", " ">>, <<"x", "\n", " ">>}

TextsAfter == {<<>>, <<" ", "y">>, <<"\n", "y">>}

FramePreproc ==
    UNCHANGED
        <<bigint, arith, verifier, server, fold, scope, harness, errmgr,
          checker, typing, literal, oblig, cli,
          registry,
          builder,
          frontend,
          success,
          trycatch,
          sif,
          interp,
          oldscope>>

PreprocInit == preproc = [pc |-> "idle"]

Preprocess(k, runs, before, after) ==
    LET marker == Written(Rewrites[k].regex, runs)
        program == before \o marker \o after
    IN /\ preproc' = [pc |-> "done", rewrite |-> k, program |-> program,
                      lo |-> Len(before) + 1, hi |-> Len(before) + Len(marker),
                      result |-> preprocess(program)]
       /\ FramePreproc

NextPreproc ==
    /\ preproc.pc = "idle"
    /\ \E k \in DOMAIN Rewrites, before \in TextsBefore, after \in TextsAfter :
          \E runs \in [1..CountWhitespaceItems(Rewrites[k].regex) -> WhitespaceRuns] :
              Preprocess(k, runs, before, after)

(***************************************************************************)
(* _PythonTransformer.float  (twovyper/parsing/lark.py)                    *)
(*                                                                         *)
(* The token of a decimal literal is first '.' second, two strings of      *)
(* decimal digits.  A Python int is unbounded: it is kept as the sequence  *)
(* of its decimal digits, most significant first and without leading       *)
(* zeros (<<>> is 0).                                                      *)
(***************************************************************************)
MaxIntegerDigits == 2

MaxFractionDigits == 11

numd == 10

\* the digit a character of "0".."9" stands for
DigitOf(c) == CHOOSE d \in 0..9 : Digits[d + 1] = c

RECURSIVE StripZeros(_)
StripZeros(digits) ==
    IF digits # <<>> /\ Head(digits) = 0
    THEN StripZeros(Tail(digits))
    ELSE digits

\* int(s) for a string of decimal digits
PyInt(s) == StripZeros([k \in DOMAIN s |-> DigitOf(s[k])])

RECURSIVE Fill(_, _)
Fill(c, n) == IF n <= 0 THEN <<>> ELSE <<c>> \o Fill(c, n - 1)

RJust(s, width, fillchar) == Fill(fillchar, width - Len(s)) \o s

\* s.ljust(width, fillchar)
ljust(s, width, fillchar) == s \o Fill(fillchar, width - Len(s))

\* a * 10 ** n
TimesPowerOfTen(a, n) == IF a = <<>> THEN <<>> ELSE a \o Fill(0, n)

\* a + b, digit by digit from the least significant with carry
RECURSIVE AddReversed(_, _, _)
AddReversed(a, b, carry) ==
    IF a = <<>> /\ b = <<>>
    THEN IF carry = 0 THEN <<>> ELSE <<carry>>
    ELSE LET x == IF a = <<>> THEN 0 ELSE Head(a)
             y == IF b = <<>> THEN 0 ELSE Head(b)
             ra == IF a = <<>> THEN <<>> ELSE Tail(a)
             rb == IF b = <<>> THEN <<>> ELSE Tail(b)
             sum == x + y + carry
         IN <<sum % 10>> \o AddReversed(ra, rb, sum \div 10)

Reversed(s) == [k \in DOMAIN s |-> s[Len(s) + 1 - k]]

Plus(a, b) == StripZeros(Reversed(AddReversed(Reversed(a), Reversed(b), 0)))

\* Decimal[numd](scaled_value=int_value)
Decimal(int_value) == [error |-> "none", scaled_value |-> int_value]

float(first, second) ==
    IF Len(second) > numd
    THEN [error |-> "invalid.decimal.literal", scaled_value |-> <<>>]
    ELSE Decimal(Plus(TimesPowerOfTen(PyInt(first), numd),
                      PyInt(ljust(second, numd, "0"))))

DigitCharacters == {"0", "2", "3", "9"}

IntegerParts == SeqsUpTo(DigitCharacters, MaxIntegerDigits) \ {<<>>}

\* fractions of every length: a digit repeated, and a zero or a three
\* before or behind it
FractionParts ==
    UNION {{Fill(c, n), <<"0">> \o Fill(c, n - 1), Fill(c, n - 1) \o <<"3">>} :
              c \in DigitCharacters, n \in 1..MaxFractionDigits}

FrameLiteral ==
    UNCHANGED
        <<bigint, arith, verifier, server, fold, scope, harness, errmgr,
          checker, typing, preproc, oblig, cli,
          registry,
          builder,
          frontend,
          success,
          trycatch,
          sif,
          interp,
          oldscope>>

LiteralInit == literal = [pc |-> "idle"]

\* the transformer reaches the float token first '.' second
Float(first, second) ==
    /\ literal' = [pc |-> "parsed", first |-> first, second |-> second,
                   result |-> float(first, second)]
    /\ FrameLiteral

NextLiteral ==
    /\ literal.pc = "idle"
    /\ \E first \in IntegerParts, second \in FractionParts : Float(first, second)

(***************************************************************************)
(* MustTerminate and MustRelease in the contract of an overriding method   *)
(* (py2viper_translation/translators/obligation/types/must_terminate.py,   *)
(* must_release.py; tests/obligations/verification/                        *)
(* test_behavioral_subtyping.py)                                           *)
(*                                                                         *)
(* The behavioural subtyping check of an override is a caller with the     *)
(* contract of the overridden method that calls the overriding method: it  *)
(* inhales the overridden precondition, exhales the precondition of the    *)
(* override at the call and ends with the leak check.  The verifier state  *)
(* is the permissions held, whole permissions counted, and the measure the *)
(* caller's measure map holds for every key; a measure None is no measure. *)
(***************************************************************************)
MaxMeasure == 4

MaxClauses == 2

_PREDICATE_NAME == "MustTerminate"

_BOUNDED_FIELD_NAME == "MustReleaseBounded"

_UNBOUNDED_FIELD_NAME == "MustReleaseUnbounded"

Locations == {_PREDICATE_NAME, _BOUNDED_FIELD_NAME, _UNBOUNDED_FIELD_NAME}

\* the keys of the measure map: the current thread and the lock
Keys == {"cthread", "lock"}

Acc(location) == [op |-> "Acc", location |-> location]

Implies(left, right) == [op |-> "Implies", left |-> left, right |-> right]

And(left, right) == [op |-> "And", left |-> left, right |-> right]

Not(operand) == [op |-> "Not", operand |-> operand]

\* expr.CurrentPerm(predicate) == expr.NoPerm()
CurrentPermIsNoPerm(location) == [op |-> "PermIsNone", location |-> location]

\* caller_measure_map.check(reference, value)
MeasureMapCheck(reference, value) ==
    [op |-> "Check", reference |-> reference, value |-> value]

InhaleExhale(inhale, exhale) == [inhale |-> inhale, exhale |-> exhale]

ExhalePartUnconditional(check, predicate) == Acc(predicate)

\* the exhale part of MustTerminate
ExhalePart(check, predicate) == Implies(check, Acc(predicate))

\* MustTerminateObligationInstance.get_use_method
get_use_method(measure) ==
    LET predicate == _PREDICATE_NAME
        inhale == Implies(CurrentPermIsNoPerm(predicate), Acc(predicate))
        check == MeasureMapCheck("cthread", measure)
        exhale == ExhalePart(check, predicate)
    IN InhaleExhale(inhale, exhale)

\* MustReleaseObligationInstance.is_fresh
is_fresh(measure) == measure = None

\* the use of a MustRelease in a method contract: the unbounded field when
\* the instance is fresh, else the bounded field where the measure check
\* holds and the unbounded field where it does not
ReleaseUseMethod(measure) ==
    IF is_fresh(measure)
    THEN InhaleExhale(Acc(_UNBOUNDED_FIELD_NAME), Acc(_UNBOUNDED_FIELD_NAME))
    ELSE LET check == MeasureMapCheck("lock", measure)
         IN InhaleExhale(
                Acc(_BOUNDED_FIELD_NAME),
                And(Implies(check, Acc(_BOUNDED_FIELD_NAME)),
                    Implies(Not(check), Acc(_UNBOUNDED_FIELD_NAME))))

UseMethod(obligation, measure) ==
    IF obligation = "MustTerminate"
    THEN get_use_method(measure)
    ELSE ReleaseUseMethod(measure)

\* the measure check of an override: the measure is no larger than the
\* measure the caller holds for the key
MeasureHolds(measures, reference, value) ==
    measures[reference] # None /\ value <= measures[reference]

RECURSIVE Holds(_, _)
Holds(e, st) ==
    CASE e.op = "PermIsNone" -> st.perm[e.location] = 0
      [] e.op = "Check" -> MeasureHolds(st.measures, e.reference, e.value)
      [] e.op = "Not" -> ~Holds(e.operand, st)

RECURSIVE Inhale(_, _)
Inhale(e, st) ==
    CASE e.op = "Acc" ->
            [st EXCEPT !.perm[e.location] = @ + 1]
      [] e.op = "Implies" ->
            IF Holds(e.left, st) THEN Inhale(e.right, st) ELSE st
      [] e.op = "And" -> Inhale(e.right, Inhale(e.left, st))

RECURSIVE Exhale(_, _)
Exhale(e, st) ==
    IF st.error # "none"
    THEN st
    ELSE CASE e.op = "Acc" ->
                 IF st.perm[e.location] >= 1
                 THEN [st EXCEPT !.perm[e.location] = @ - 1]
                 ELSE [st EXCEPT !.error = "call.precondition:insufficient.permission"]
           [] e.op = "Implies" ->
                 IF Holds(e.left, st) THEN Exhale(e.right, st) ELSE st
           [] e.op = "And" -> Exhale(e.right, Exhale(e.left, st))

\* Requires(clause) clauses times over
RECURSIVE ExhaleClauses(_, _, _)
ExhaleClauses(use, clauses, st) ==
    IF clauses = 0
    THEN st
    ELSE ExhaleClauses(use, clauses - 1, Exhale(use.exhale, st))

Measures == 1..MaxMeasure

EmptyState ==
    [perm |-> [l \in Locations |-> 0], measures |-> [k \in Keys |-> None],
     error |-> "none"]

KeyOf(obligation) == IF obligation = "MustTerminate" THEN "cthread" ELSE "lock"

FrameOblig ==
    UNCHANGED
        <<bigint, arith, verifier, server, fold, scope, harness, errmgr,
          checker, typing, preproc, literal, cli,
          registry,
          builder,
          frontend,
          success,
          trycatch,
          sif,
          interp,
          oldscope>>

ObligInit == oblig = [pc |-> "idle"]

\* the caller starts with the precondition of the overridden method
InhaleOverridden(obligation, super, sub, clauses) ==
    /\ oblig.pc = "idle"
    /\ oblig' =
          [pc |-> "inhaled", obligation |-> obligation, super |-> super,
           sub |-> sub, clauses |-> clauses,
           st |-> Inhale(UseMethod(obligation, super).inhale,
                         [EmptyState EXCEPT
                             !.measures[KeyOf(obligation)] = super])]
    /\ FrameOblig

\* the call of the overriding method exhales its precondition
CallOverride ==
    /\ oblig.pc = "inhaled"
    /\ oblig' =
          [oblig EXCEPT
              !.pc = "called",
              !.st = ExhaleClauses(UseMethod(oblig.obligation, oblig.sub),
                                   oblig.clauses, oblig.st)]
    /\ FrameOblig

\* the caller may end with no obligation left
LeakCheck ==
    /\ oblig.pc = "called"
    /\ oblig' =
          [oblig EXCEPT
              !.pc = "checked",
              !.st.error =
                  IF oblig.st.error # "none"
                  THEN oblig.st.error
                  ELSE IF \E l \in Locations : oblig.st.perm[l] # 0
                  THEN "leak_check.failed:caller.has_unsatisfied_obligations"
                  ELSE "none"]
    /\ FrameOblig

NextOblig ==
    \/ /\ oblig.pc = "idle"
       /\ \/ \E super \in Measures, sub \in Measures, clauses \in 1..MaxClauses :
                InhaleOverridden("MustTerminate", super, sub, clauses)
          \/ \E super \in Measures, sub \in Measures :
                InhaleOverridden("MustRelease", super, sub, 1)
          \/ InhaleOverridden("MustRelease", None, None, 1)
    \/ CallOverride
    \/ LeakCheck

(***************************************************************************)
(* main: the required paths  (twovyper/main.py)                            *)
(*                                                                         *)
(* An optional string is <<>> for None and <<s>> for the string s.  The    *)
(* configuration defaults (config.boogie_path, config.z3_path and the      *)
(* classpath config.set_classpath finds for a verifier) are inputs, as are *)
(* the flags given on the command line.                                    *)
(***************************************************************************)
Absent == <<>>

\* the truth value of a path: None and the empty string are false
Truthy(path) == path # Absent /\ path[1] # ""

OptionalPaths == {Absent, <<"">>, <<"/path">>}

Verifiers == {"silicon", "carbon"}

\* argparse: the flag when it is given, else its default
Argument(flag, default) == IF flag # Absent THEN flag ELSE default

BoogieRequiredAlways(backend) == TRUE

\* args.verifier == 'carbon'
BoogieRequired(backend) == backend = "carbon"

\* the first parser.error among the three checks, "none" when all pass
UsageError(classpath, boogie_path, z3_path, backend) ==
    IF ~Truthy(classpath) THEN "missing argument: --viper-jar-path"
    ELSE IF ~Truthy(z3_path) THEN "missing argument: --z3"
    ELSE IF BoogieRequired(backend) /\ ~Truthy(boogie_path)
         THEN "missing argument: --boogie"
    ELSE "none"

FrameCli ==
    UNCHANGED
        <<bigint, arith, verifier, server, fold, scope, harness, errmgr,
          checker, typing, preproc, literal, oblig,
          registry,
          builder,
          frontend,
          success,
          trycatch,
          sif,
          interp,
          oldscope>>

CliInit == cli = [pc |-> "idle"]

\* args = parser.parse_args() and the assignments to config
ParseArgs(backend, viper_jar_path, default_classpath, boogie, z3, server_mode) ==
    /\ cli.pc = "idle"
    /\ cli' = [pc |-> "parsed", verifier |-> backend,
               classpath |-> IF Truthy(viper_jar_path)
                             THEN viper_jar_path
                             ELSE default_classpath,
               boogie_path |-> boogie, z3_path |-> z3,
               server_mode |-> server_mode,
               error |-> "none", jvm |-> FALSE, file_read |-> FALSE]
    /\ FrameCli

\* the three checks: parser.error prints the usage and exits
CheckPaths ==
    /\ cli.pc = "parsed"
    /\ LET error == UsageError(cli.classpath, cli.boogie_path, cli.z3_path,
                               cli.verifier)
       IN cli' = [cli EXCEPT !.error = error,
                             !.pc = IF error = "none" THEN "checked"
                                    ELSE "usage_error"]
    /\ FrameCli

\* jvm = JVM(config.classpath)
StartJVM ==
    /\ cli.pc = "checked"
    /\ cli' = [cli EXCEPT !.jvm = TRUE,
                          !.pc = IF cli.server_mode THEN "serving" ELSE "started"]
    /\ FrameCli

\* translate_and_verify(args.vyper_file, jvm, args) reads the file
TranslateAndVerify ==
    /\ cli.pc = "started"
    /\ cli' = [cli EXCEPT !.file_read = TRUE, !.pc = "done"]
    /\ FrameCli

NextCli ==
    \/ /\ cli.pc = "idle"
       /\ \E backend \in Verifiers, viper_jar_path \in OptionalPaths,
             default_classpath \in OptionalPaths,
             boogie_flag \in OptionalPaths, boogie_default \in OptionalPaths,
             z3_flag \in OptionalPaths, z3_default \in OptionalPaths,
             server_mode \in BOOLEAN :
               ParseArgs(backend, viper_jar_path, default_classpath,
                         Argument(boogie_flag, boogie_default),
                         Argument(z3_flag, z3_default), server_mode)
    \/ CheckPaths
    \/ StartJVM
    \/ TranslateAndVerify

(***************************************************************************)
(* ErrorManager: the registry of error information                         *)
(* (nagini_translation/lib/errors/manager.py, twovyper/main.py translate)  *)
(*                                                                         *)
(* uuid1 draws its identifier from a timestamp that it keeps strictly      *)
(* increasing within the process: the identifier is the count of the       *)
(* timestamps drawn.  _items and _conversion_rules are functions on the    *)
(* identifiers they hold.  returned and registered are the history of the  *)
(* calls: the identifiers returned since the process started, and the      *)
(* registrations since the last clear.                                     *)
(***************************************************************************)
MaxRegistered == 3

ErrorInfos == {"info_a", "info_b"}

\* the conversion rules a caller gives: None or rules
ConversionRules == {None, 1}

\* str(uuid1())
uuid1(last_timestamp) == last_timestamp + 1

ClearItemsOnly(reg) == [reg EXCEPT !._items = <<>>, !.registered = {}]

\* ErrorManager.clear
clear(reg) ==
    [reg EXCEPT !._items = <<>>, !._conversion_rules = <<>>, !.registered = {}]

\* d[key] = value
SetItem(d, key, value) ==
    [k \in DOMAIN d \cup {key} |-> IF k = key THEN value ELSE d[k]]

\* ErrorManager.add_error_information
add_error_information(reg, error_info, conversion_rules) ==
    LET item_id == uuid1(reg.last_timestamp)
    IN [reg EXCEPT
           !.last_timestamp = item_id,
           !._items = SetItem(@, item_id, error_info),
           !._conversion_rules =
               IF conversion_rules # None
               THEN SetItem(@, item_id, conversion_rules)
               ELSE @,
           !.returned = Append(@, item_id),
           !.registered = @ \cup {[id |-> item_id, info |-> error_info,
                                   rules |-> conversion_rules]}]

FrameRegistry ==
    UNCHANGED
        <<bigint, arith, verifier, server, fold, scope, harness, errmgr,
          checker, typing, preproc, literal, oblig, cli,
          builder,
          frontend,
          success,
          trycatch,
          sif,
          interp,
          oldscope>>

RegistryInit == registry = [pc |-> "idle"]

\* manager = ErrorManager()
RegistryConstruct ==
    /\ registry.pc = "idle"
    /\ registry' = [pc |-> "constructed", last_timestamp |-> 0,
                    _items |-> <<>>, _conversion_rules |-> <<>>,
                    returned |-> <<>>, registered |-> {}, run |-> {}]
    /\ FrameRegistry

\* translate: error_manager.clear() before the file is parsed
TranslateClear ==
    /\ registry.pc \in {"constructed", "translated"}
    /\ registry' = [clear(registry) EXCEPT !.pc = "translating", !.run = {}]
    /\ FrameRegistry

\* a translator registers the information of a node
AddErrorInformation(error_info, conversion_rules) ==
    /\ registry.pc \in {"constructed", "translating"}
    /\ Len(registry.returned) < MaxRegistered
    /\ LET reg == add_error_information(registry, error_info, conversion_rules)
       IN registry' =
             [reg EXCEPT !.run = IF registry.pc = "translating"
                                 THEN @ \cup {reg.last_timestamp}
                                 ELSE @]
    /\ FrameRegistry

\* translate returns the program
TranslateReturn ==
    /\ registry.pc = "translating"
    /\ registry' = [registry EXCEPT !.pc = "translated"]
    /\ FrameRegistry

NextRegistry ==
    \/ RegistryConstruct
    \/ TranslateClear
    \/ \E error_info \in ErrorInfos, conversion_rules \in ConversionRules :
          AddErrorInformation(error_info, conversion_rules)
    \/ TranslateReturn

(***************************************************************************)
(* ProgramBuilder: the walk over the top-level statements                  *)
(* (twovyper/parsing/parser.py)                                            *)
(*                                                                         *)
(* A statement is the node the preprocessed file parses to: an assignment  *)
(* to one of the specification names the preprocessor writes, an annotated *)
(* assignment, a class definition, a function definition, or the           *)
(* `if False:` of a preserves block with its body.  A node is identified   *)
(* by its path: <<i>> for the i-th top-level statement, <<i, j>> for the   *)
(* j-th statement of its body.  A function is named after its node, as the *)
(* functions of a compiled contract have distinct names.  A raised         *)
(* InvalidProgramException is the code in the builder's error field; the   *)
(* statements after it are not visited.                                    *)
(***************************************************************************)
MaxTopLevel == 3

SpecAssign(name) == [node |-> "Assign", what |-> name, body |-> <<>>]

BuilderAnnAssign(what) == [node |-> "AnnAssign", what |-> what, body |-> <<>>]

BuilderClassDef(what) == [node |-> "ClassDef", what |-> what, body |-> <<>>]

BuilderFunctionDef == [node |-> "FunctionDef", what |-> "function", body |-> <<>>]

PreservesBlock(body) == [node |-> "If", what |-> "preserves", body |-> body]

SpecNames ==
    {"config", "invariant", "always_ensures", "always_check", "ensures", "check"}

TopLevelStatements ==
    {SpecAssign(name) : name \in SpecNames}
        \cup {BuilderAnnAssign("variable"), BuilderAnnAssign("event")}
        \cup {BuilderClassDef("struct"), BuilderClassDef("contract")}
        \cup {BuilderFunctionDef}
        \cup {PreservesBlock(<<SpecAssign("always_ensures")>>),
              PreservesBlock(<<SpecAssign("ensures")>>),
              PreservesBlock(<<PreservesBlock(<<SpecAssign("always_ensures")>>)>>)}

Modules == SeqsUpTo(TopLevelStatements, MaxTopLevel)

\* ProgramBuilder.__init__
ProgramBuilder ==
    [config |-> <<>>, fields |-> <<>>, events |-> <<>>, structs |-> <<>>,
     contracts |-> <<>>, functions |-> <<>>, invariants |-> <<>>,
     general_postconditions |-> <<>>, transitive_postconditions |-> <<>>,
     general_checks |-> <<>>, postconditions |-> <<>>, checks |-> <<>>,
     is_preserves |-> FALSE, error |-> <<>>]

InvalidProgram(b, code) == [b EXCEPT !.error = <<code>>]

\* ProgramBuilder._check_no_local_spec
_check_no_local_spec(b) ==
    IF b.postconditions # <<>> \/ b.checks # <<>>
    THEN InvalidProgram(b, "local.spec")
    ELSE b

\* ProgramBuilder.visit_ClassDef
visit_ClassDef(b, stmt, id) ==
    IF stmt.what = "struct"
    THEN [b EXCEPT !.structs = Append(@, id)]
    ELSE [b EXCEPT !.contracts = Append(@, id)]

\* ProgramBuilder.visit_AnnAssign
visit_AnnAssign(b, stmt, id) ==
    LET checked == _check_no_local_spec(b)
    IN IF checked.error # <<>> THEN checked
       ELSE IF stmt.what = "event"
       THEN [checked EXCEPT !.events = Append(@, id)]
       ELSE [checked EXCEPT !.fields = Append(@, id)]

\* ProgramBuilder.visit_Assign
visit_Assign(b, stmt, id) ==
    LET checked == _check_no_local_spec(b)
    IN CASE stmt.what = "config" -> [b EXCEPT !.config = <<id>>]
         [] stmt.what = "invariant" ->
               IF checked.error # <<>> THEN checked
               ELSE [checked EXCEPT !.invariants = Append(@, id)]
         [] stmt.what = "always_ensures" ->
               IF checked.error # <<>> THEN checked
               ELSE IF b.is_preserves
               THEN [checked EXCEPT !.transitive_postconditions = Append(@, id)]
               ELSE [checked EXCEPT !.general_postconditions = Append(@, id)]
         [] stmt.what = "always_check" ->
               IF checked.error # <<>> THEN checked
               ELSE [checked EXCEPT !.general_checks = Append(@, id)]
         [] stmt.what = "ensures" -> [b EXCEPT !.postconditions = Append(@, id)]
         [] stmt.what = "check" -> [b EXCEPT !.checks = Append(@, id)]

visit_FunctionDefKeepsChecks(b, stmt, id) ==
    [b EXCEPT !.functions =
                  Append(@, [name |-> id, postconditions |-> b.postconditions,
                             checks |-> b.checks]),
              !.postconditions = <<>>]

\* ProgramBuilder.visit_FunctionDef
visit_FunctionDef(b, stmt, id) ==
    [b EXCEPT !.functions =
                  Append(@, [name |-> id, postconditions |-> b.postconditions,
                             checks |-> b.checks]),
              !.postconditions = <<>>,
              !.checks = <<>>]

RECURSIVE BuilderVisit(_, _, _)
RECURSIVE VisitStatements(_, _, _, _)

\* for stmt in node.body: self.visit(stmt)
VisitStatements(b, body, id, j) ==
    IF j > Len(body) \/ b.error # <<>>
    THEN b
    ELSE VisitStatements(BuilderVisit(b, body[j], Append(id, j)), body, id, j + 1)

\* ProgramBuilder.visit_If
visit_If(b, stmt, id) ==
    IF b.is_preserves
    THEN InvalidProgram(b, "preserves.in.preserves")
    ELSE LET body == VisitStatements([b EXCEPT !.is_preserves = TRUE],
                                     stmt.body, id, 1)
         IN IF body.error # <<>> THEN body
            ELSE [body EXCEPT !.is_preserves = FALSE]

\* ast.NodeVisitor.visit: the method of the node's class
BuilderVisit(b, stmt, id) ==
    CASE stmt.node = "Assign" -> visit_Assign(b, stmt, id)
      [] stmt.node = "AnnAssign" -> visit_AnnAssign(b, stmt, id)
      [] stmt.node = "ClassDef" -> visit_ClassDef(b, stmt, id)
      [] stmt.node = "FunctionDef" -> visit_FunctionDef(b, stmt, id)
      [] stmt.node = "If" -> visit_If(b, stmt, id)

FrameBuilder ==
    UNCHANGED
        <<bigint, arith, verifier, server, fold, scope, harness, errmgr,
          checker, typing, preproc, literal, oblig, cli, registry,
          frontend,
          success,
          trycatch,
          sif,
          interp,
          oldscope>>

BuilderInit == builder = [pc |-> "idle"]

\* parse: program_builder = ProgramBuilder() for the module of the file
Parse(module) ==
    /\ builder' = [pc |-> "visiting", module |-> module, pos |-> 1,
                   b |-> ProgramBuilder]
    /\ FrameBuilder

\* build: self.visit(node), one top-level statement of the module
VisitTopLevel ==
    /\ builder.pc = "visiting"
    /\ builder.pos <= Len(builder.module)
    /\ LET b == BuilderVisit(builder.b, builder.module[builder.pos],
                             <<builder.pos>>)
       IN builder' = [builder EXCEPT
                         !.b = b,
                         !.pos = IF b.error # <<>> THEN @ ELSE @ + 1,
                         !.pc = IF b.error # <<>> THEN "failed" ELSE @]
    /\ FrameBuilder

\* build: no trailing local specs allowed, then the program is returned
BuildReturn ==
    /\ builder.pc = "visiting"
    /\ builder.pos > Len(builder.module)
    /\ LET b == _check_no_local_spec(builder.b)
       IN builder' = [builder EXCEPT
                         !.b = b,
                         !.pc = IF b.error # <<>> THEN "failed" ELSE "built"]
    /\ FrameBuilder

NextBuilder ==
    \/ /\ builder.pc = "idle"
       /\ \E module \in Modules : Parse(module)
    \/ VisitTopLevel
    \/ BuildReturn

(***************************************************************************)
(* translate_and_verify and verify: exceptions of the foreign runtime      *)
(* (twovyper/main.py)                                                      *)
(*                                                                         *)
(* The translation and the backend run on the JVM; either may raise a      *)
(* JException.  out is what has been printed; raised is the exception the  *)
(* call of translate_and_verify ends with, if any; foreign records that a  *)
(* JException was raised.  vresult is <<>> for None.                       *)
(***************************************************************************)
MaxBenchmark == 2

FrontendArgs ==
    [verbose : BOOLEAN, print_silver : BOOLEAN, benchmark : 0..MaxBenchmark]

TranslateOutcomes == {"program", "JException", "InvalidProgramException"}

FrontendVerifyOutcomes == {"result", "JException"}

FrameFrontend ==
    UNCHANGED
        <<bigint, arith, verifier, server, fold, scope, harness, errmgr,
          checker, typing, preproc, literal, oblig, cli, registry, builder,
          success,
          trycatch,
          sif,
          interp,
          oldscope>>

FrontendInit == frontend = [pc |-> "idle"]

\* translate_and_verify(vyper_file, jvm, args)
FrontendCall(args) ==
    /\ frontend' = [pc |-> "translate", args |-> args, out |-> <<>>,
                    vresult |-> <<>>, i |-> 0, raised |-> <<>>,
                    foreign |-> FALSE]
    /\ FrameFrontend

\* the except clauses of translate_and_verify
ExceptClauses(f, exception) ==
    CASE exception = "InvalidProgramException" ->
            [f EXCEPT !.pc = "returned", !.out = Append(@, "error_string")]
      [] exception = "JException" ->
            [f EXCEPT !.pc = "terminated", !.out = Append(@, "stacktrace"),
                      !.raised = <<exception>>]
      [] OTHER -> [f EXCEPT !.pc = "terminated", !.raised = <<exception>>]

\* prog = translate(...) and the printing of the program
FrontendTranslate(outcome) ==
    /\ frontend.pc = "translate"
    /\ frontend' =
          IF outcome = "program"
          THEN [frontend EXCEPT
                   !.out = (IF frontend.args.print_silver
                            THEN (IF frontend.args.verbose
                                  THEN Append(@, "Result:") ELSE @)
                                     \o <<"program">>
                            ELSE @)
                           \o (IF frontend.args.benchmark >= 1
                               THEN <<"Run, Total, Start, End, Time">>
                               ELSE <<>>),
                   !.pc = IF frontend.args.benchmark >= 1
                          THEN "benchmark" ELSE "verify"]
          ELSE ExceptClauses([frontend EXCEPT
                                 !.foreign = @ \/ outcome = "JException"],
                             outcome)
    /\ FrameFrontend

\* verify: the result of the backend, or None after a printed JException
main_verify(f, outcome) ==
    IF outcome = "JException"
    THEN [f EXCEPT !.out = @ \o <<"stacktrace", "traceback">>,
                   !.vresult = <<>>, !.foreign = TRUE]
    ELSE [f EXCEPT !.vresult = <<outcome>>]

\* prog = translate(...) of a benchmark run
BenchmarkTranslate(outcome) ==
    /\ frontend.pc = "benchmark"
    /\ frontend' =
          IF outcome = "program"
          THEN [frontend EXCEPT !.pc = "verify"]
          ELSE ExceptClauses([frontend EXCEPT
                                 !.foreign = @ \/ outcome = "JException"],
                             outcome)
    /\ FrameFrontend

\* vresult = verify(prog, vyper_file, jvm, backend=backend)
FrontendVerify(outcome) ==
    /\ frontend.pc = "verify"
    /\ LET f == main_verify(frontend, outcome)
       IN frontend' =
             IF frontend.args.benchmark >= 1
             THEN [f EXCEPT !.out = Append(@, "timing"),
                            !.i = @ + 1,
                            !.pc = IF frontend.i + 1 < frontend.args.benchmark
                                   THEN "benchmark" ELSE "render"]
             ELSE [f EXCEPT !.pc = "render"]
    /\ FrameFrontend

\* print(vresult.to_string(...)) and the duration
Render ==
    /\ frontend.pc = "render"
    /\ LET completed ==
              IF frontend.args.verbose
              THEN [frontend EXCEPT !.out = Append(@, "Verification completed.")]
              ELSE frontend
       IN frontend' =
             IF frontend.vresult = <<>>
             THEN ExceptClauses(completed, "AttributeError")
             ELSE [completed EXCEPT
                      !.out = @ \o <<"result", "Verification took">>,
                      !.pc = "returned"]
    /\ FrameFrontend

NextFrontend ==
    \/ /\ frontend.pc = "idle"
       /\ \E args \in FrontendArgs : FrontendCall(args)
    \/ \E outcome \in TranslateOutcomes : FrontendTranslate(outcome)
    \/ \E outcome \in TranslateOutcomes : BenchmarkTranslate(outcome)
    \/ \E outcome \in FrontendVerifyOutcomes : FrontendVerify(outcome)
    \/ Render

(***************************************************************************)
(* The shape of a success call                                             *)
(* (structure_checker.py visit_FunctionCall, type_annotator.py             *)
(* visit_FunctionCall and _check_number_of_arguments)                      *)
(*                                                                         *)
(* A call is checked by the structure checker and annotated by the type    *)
(* annotator; it is accepted when neither raises.  The names of the        *)
(* success conditions are those of the surface language.                   *)
(***************************************************************************)
MaxSuccessArgs == 2

MaxKeywords == 2

SUCCESS == "success"

SUCCESS_IF_NOT == "if_not"

SUCCESS_CONDITIONS == {"out_of_gas", "sender_failed", "overflow"}

VyperBoolOp(left, op, right) ==
    [kind |-> "BoolOp", op |-> op, left |-> left, right |-> right]

Keyword(name, value) == [name |-> name, value |-> value]

SuccessCall(args, keywords) ==
    [kind |-> "FunctionCall", name |-> SUCCESS, args |-> args,
     keywords |-> keywords]

RECURSIVE check_success_args(_)
\* check_success_args: the error code raised, or <<>>
check_success_args(node) ==
    IF node.kind = "Name"
    THEN IF node.id \in SUCCESS_CONDITIONS THEN <<>> ELSE <<"spec.success">>
    ELSE IF node.kind = "BoolOp" /\ node.op = "or"
    THEN LET left == check_success_args(node.left)
         IN IF left # <<>> THEN left ELSE check_success_args(node.right)
    ELSE <<"spec.success">>

\* StructureChecker.visit_FunctionCall, the branch of success
CheckSuccess(node) ==
    IF ~(Len(node.keywords) <= 1) THEN <<"spec.success">>
    ELSE IF node.keywords # <<>>
    THEN IF node.keywords[1].name # SUCCESS_IF_NOT THEN <<"spec.success">>
         ELSE check_success_args(node.keywords[1].value)
    ELSE <<>>

\* _check_number_of_arguments(node, *expected, allowed_keywords)
_check_number_of_arguments(node, expected, allowed_keywords) ==
    IF Len(node.args) \notin expected THEN <<"invalid.no.args">>
    ELSE IF \E k \in DOMAIN node.keywords :
                node.keywords[k].name \notin allowed_keywords
    THEN <<"invalid.no.args">>
    ELSE <<>>

\* TypeAnnotator.visit_FunctionCall, the case of success
AnnotateSuccess(node) ==
    _check_number_of_arguments(node, {0, 1}, {SUCCESS_IF_NOT})

SuccessValues ==
    {Name("overflow"), Name("out_of_gas"), Name("x"),
     VyperBoolOp(Name("overflow"), "or", Name("out_of_gas")),
     VyperBoolOp(Name("overflow"), "or", Name("x")),
     VyperBoolOp(Name("overflow"), "and", Name("out_of_gas")),
     VyperBoolOp(VyperBoolOp(Name("overflow"), "or", Name("sender_failed")),
                 "or", Name("out_of_gas"))}

SuccessKeywords ==
    {Keyword(name, value) : name \in {SUCCESS_IF_NOT, "unless"},
                            value \in SuccessValues}

SuccessCalls ==
    {SuccessCall(args, keywords) :
        args \in SeqsUpTo({Name("x")}, MaxSuccessArgs),
        keywords \in SeqsUpTo(SuccessKeywords, MaxKeywords)}

FrameSuccess ==
    UNCHANGED
        <<bigint, arith, verifier, server, fold, scope, harness, errmgr,
          checker, typing, preproc, literal, oblig, cli, registry, builder,
          frontend,
          trycatch,
          sif,
          interp,
          oldscope>>

SuccessInit == success = [pc |-> "idle"]

\* check_structure reaches the call
StructureCheckSuccess(node) ==
    /\ LET error == CheckSuccess(node)
       IN success' = [pc |-> IF error = <<>> THEN "checked" ELSE "rejected",
                      node |-> node, error |-> error]
    /\ FrameSuccess

\* the type annotator reaches the call
TypeAnnotateSuccess ==
    /\ success.pc = "checked"
    /\ LET error == AnnotateSuccess(success.node)
       IN success' = [success EXCEPT
                         !.pc = IF error = <<>> THEN "accepted" ELSE "rejected",
                         !.error = error]
    /\ FrameSuccess

NextSuccess ==
    \/ /\ success.pc = "idle"
       /\ \E node \in SuccessCalls : StructureCheckSuccess(node)
    \/ TypeAnnotateSuccess

(***************************************************************************)
(* The error path after a call that may raise                              *)
(* (py2viper_translation/expression_translator.py and                      *)
(* translators/expression.py: create_exception_catchers and                *)
(* _create_goto_finally; lib/program_nodes.py: PythonTryBlock)             *)
(*                                                                         *)
(* The repository holds two versions of the expression translator; the     *)
(* version is an input.  tries are the try blocks around the call, the     *)
(* nearest first.  A local variable is named by the name asked of          *)
(* get_fresh_name and the number of locals that had it before.  var is the *)
(* variable that holds the error the call raised: a variable of the call   *)
(* or the error variable of one of the blocks.  The alias table of the     *)
(* context is empty.                                                       *)
(***************************************************************************)
MaxTries == 2

TranslatorVersions == {"expression_translator.py", "translators/expression.py"}

\* a try block as the analysis leaves it: handlers and finally block known
PythonTryBlock(try_name, handlers, finally_block) ==
    [name |-> try_name, handlers |-> handlers, finally_block |-> finally_block,
     finally_name |-> <<try_name, "finally">>,
     finally_var |-> <<>>, error_var |-> <<>>]

TryShapes ==
    {[handlers |-> h, finally_block |-> f] :
        h \in {<<>>, <<"Exception">>}, f \in BOOLEAN}

\* method.get_fresh_name(name) and method.locals[sil_name] = result
FreshLocal(locals, name) ==
    <<name, Cardinality({i \in DOMAIN locals : locals[i][1] = name})>>

\* PythonTryBlock.get_finally_var: the state with the variable created
get_finally_var(t, i) ==
    IF t.tries[i].finally_var # <<>> THEN t
    ELSE LET sil_name == FreshLocal(t.locals, "try_finally")
         IN [t EXCEPT !.locals = Append(@, sil_name),
                      !.tries[i].finally_var = <<sil_name>>]

\* PythonTryBlock.get_error_var: the state with the variable created
get_error_var(t, i) ==
    IF t.tries[i].error_var # <<>> THEN t
    ELSE LET sil_name == FreshLocal(t.locals, "error")
         IN [t EXCEPT !.locals = Append(@, sil_name),
                      !.tries[i].error_var = <<sil_name>>]

Seqn(stmts) == [kind |-> "Seqn", stmts |-> stmts]

FirstWithFinally(tries) ==
    LET with == {i \in DOMAIN tries : tries[i].finally_block}
    IN IF with = {} THEN 0 ELSE CHOOSE i \in with : \A j \in with : i <= j

\* _create_goto_finally: the state, with the block to jump there in goto
_create_goto_finally(t, error_var) ==
    LET i == FirstWithFinally(t.tries)
    IN IF i = 0 THEN [t EXCEPT !.goto = <<>>]
       ELSE LET created ==
                    IF t.version = "expression_translator.py"
                    THEN get_error_var(get_finally_var(t, i), i)
                    ELSE get_finally_var(t, i)
                var_next == created.tries[i].finally_var[1]
                next_assign == LocalVarAssign(var_next, IntLit(2))
                goto_next == Goto(created.tries[i].finally_name)
            IN [created EXCEPT !.goto = <<Seqn(<<next_assign, goto_next>>)>>]

RECURSIVE HandlerCases(_, _, _, _)
\* the conditionals over the handlers, the nearest handler tested first
HandlerCases(handlers, k, var, uncaught_option) ==
    IF k > Len(handlers) THEN uncaught_option
    ELSE If([kind |-> "has_type", var |-> var, type |-> handlers[k].exception],
            Goto(handlers[k].name),
            HandlerCases(handlers, k + 1, var, uncaught_option))

RECURSIVE RelevantHandlers(_, _)
\* the handlers of the blocks up to the first block with a finally block
RelevantHandlers(tries, i) ==
    IF i > Len(tries) THEN <<>>
    ELSE [k \in DOMAIN tries[i].handlers |->
             [exception |-> tries[i].handlers[k],
              name |-> <<tries[i].name, "handler", k>>]]
         \o (IF tries[i].finally_block THEN <<>>
             ELSE RelevantHandlers(tries, i + 1))

\* create_exception_catchers
create_exception_catchers(t, var) ==
    LET found == _create_goto_finally(t, var)
        uncaught_option ==
            IF found.goto # <<>> THEN found.goto[1]
            ELSE IF t.declared_exceptions
            THEN Seqn(<<LocalVarAssign(<<"_err", 0>>, var), Goto(<<"__end">>)>>)
            ELSE [kind |-> "Exhale", exp |-> FALSE]
        error_case ==
            HandlerCases(RelevantHandlers(t.tries, 1), 1, var, uncaught_option)
    IN [found EXCEPT
           !.var = <<var>>,
           !.uncaught_option = <<uncaught_option>>,
           !.errcheck = <<If([kind |-> "NeCmp", left |-> var, right |-> "null"],
                             error_case, Seqn(<<>>))>>]

FrameTrycatch ==
    UNCHANGED
        <<bigint, arith, verifier, server, fold, scope, harness, errmgr,
          checker, typing, preproc, literal, oblig, cli, registry, builder,
          frontend, success,
          sif,
          interp,
          oldscope>>

TrycatchInit == trycatch = [pc |-> "idle"]

\* the analysis of a method: its try blocks around the call
AnalyzeTry(version, shapes, declared_exceptions) ==
    /\ trycatch' =
          [pc |-> "analyzed", version |-> version,
           tries |-> [i \in DOMAIN shapes |->
                         PythonTryBlock(<<"try", i>>, shapes[i].handlers,
                                        shapes[i].finally_block)],
           locals |-> <<>>, declared_exceptions |-> declared_exceptions,
           goto |-> <<>>, var |-> <<>>, uncaught_option |-> <<>>,
           errcheck |-> <<>>]
    /\ FrameTrycatch

\* PythonTryBlock.process
ProcessTry(i) ==
    /\ trycatch.pc = "analyzed"
    /\ i \in DOMAIN trycatch.tries
    /\ trycatch.tries[i].error_var = <<>>
    /\ trycatch' = get_finally_var(get_error_var(trycatch, i), i)
    /\ FrameTrycatch

\* the translation of the call: its error is in a variable of its own
CatchFromCall ==
    /\ trycatch.pc = "analyzed"
    /\ LET var == FreshLocal(trycatch.locals, "error")
           declared == [trycatch EXCEPT !.locals = Append(@, var)]
       IN trycatch' = [create_exception_catchers(declared, var)
                          EXCEPT !.pc = "translated"]
    /\ FrameTrycatch

\* the translation of the call: its error is in the error variable of a block
CatchFromBlock(i) ==
    /\ trycatch.pc = "analyzed"
    /\ i \in DOMAIN trycatch.tries
    /\ LET created == get_error_var(trycatch, i)
       IN trycatch' = [create_exception_catchers(created,
                                                 created.tries[i].error_var[1])
                          EXCEPT !.pc = "translated"]
    /\ FrameTrycatch

NextTrycatch ==
    \/ /\ trycatch.pc = "idle"
       /\ \E version \in TranslatorVersions,
             shapes \in SeqsUpTo(TryShapes, MaxTries),
             declared_exceptions \in BOOLEAN :
             AnalyzeTry(version, shapes, declared_exceptions)
    \/ \E i \in 1..MaxTries : ProcessTry(i)
    \/ CatchFromCall
    \/ \E i \in 1..MaxTries : CatchFromBlock(i)

(***************************************************************************)
(* The information-flow translator: the prime context and the results of   *)
(* calls (py2viper_translation/sif/lib/context.py and                      *)
(* sif/translators/call.py)                                                *)
(*                                                                         *)
(* An expression is a variable or a call node; a call node has an identity *)
(* (id), arguments, at most one receiver and a target that returns a value *)
(* (typed) or not.  var_aliases and translated_calls are functions on the  *)
(* names and the nodes they hold.  A result expression is a name, <<>> for *)
(* None.  The translator translates an expression in the primary context   *)
(* first and translates it again inside the prime context only when its    *)
(* value is used.  call.py sets the mode by assigning ctx.use_prime; the   *)
(* setter it uses is not part of context.py and is taken to write the flag *)
(* that use_prime reads.                                                   *)
(***************************************************************************)
SifVar(name) == [kind |-> "Var", name |-> name]

SifCall(id, typed, recv, args) ==
    [kind |-> "Call", id |-> id, typed |-> typed, recv |-> recv, args |-> args]

SifExpressions ==
    {SifCall(1, typed, <<>>, <<SifVar("x")>>) : typed \in BOOLEAN}
        \cup {SifCall(1, typed, <<SifVar("x")>>, <<>>) : typed \in BOOLEAN}
        \cup {SifCall(1, TRUE, <<>>, <<SifCall(2, TRUE, <<>>, <<SifVar("x")>>)>>),
              SifCall(1, TRUE, <<>>,
                      <<SifCall(2, TRUE, <<>>,
                                <<SifCall(3, TRUE, <<>>, <<SifVar("x")>>)>>)>>),
              SifCall(1, TRUE, <<>>,
                      <<SifCall(2, TRUE, <<>>, <<SifVar("x")>>),
                        SifCall(3, TRUE, <<>>, <<SifVar("y")>>)>>),
              SifCall(1, FALSE, <<SifCall(2, TRUE, <<>>, <<SifVar("x")>>)>>,
                      <<SifVar("y")>>)}

\* the alias tables of the context before the expression is translated
AliasTables == {<<>>, [n \in {"x"} |-> <<"x", "alias">>]}

\* the aliases given to set_prime_ctx: None, or aliases of the caller
PrimeAliases == {<<>>, [n \in {"y"} |-> <<"y", "q">>]}

\* SIFContext.__init__
SIFContext == [_use_prime |-> FALSE, _old_vars |-> <<>>, var_aliases |-> <<>>]

\* dict.update
Update(d, other) ==
    [k \in DOMAIN d \cup DOMAIN other |-> IF k \in DOMAIN other THEN other[k]
                                          ELSE d[k]]

\* the prime variables of the SIFPythonVars of get_all_vars
AllPrimeVars == [n \in {"x", "y"} |-> <<n, "p">>]

\* SIFContext.set_prime_ctx, after its assertion
set_prime_ctx(ctx, aliases) ==
    [ctx EXCEPT
        !._use_prime = TRUE,
        !._old_vars = IF ctx.var_aliases # <<>> THEN ctx.var_aliases ELSE @,
        !.var_aliases = Update(@, IF aliases = <<>> THEN AllPrimeVars
                                  ELSE aliases)]

set_normal_ctx_keeps_aliases(ctx) ==
    [ctx EXCEPT !._use_prime = FALSE, !._old_vars = <<>>]

\* SIFContext.set_normal_ctx, after its assertion
set_normal_ctx(ctx) ==
    [ctx EXCEPT !._use_prime = FALSE,
                !.var_aliases = ctx._old_vars,
                !._old_vars = <<>>]

\* ctx.use_prime = value
SetUsePrime(s, value) == [s EXCEPT !.ctx._use_prime = value]

\* CallResults.__init__
CallResults == [_results |-> <<>>, _idx |-> 0]

NextWithoutAdvance(results) ==
    IF results._idx < Len(results._results)
    THEN [results |-> results, res |-> results._results[results._idx + 1]]
    ELSE [results |-> results, res |-> <<>>]

\* CallResults.next: the container after the call, and the result
CallResultsNext(results) ==
    IF results._idx < Len(results._results)
    THEN [results |-> [results EXCEPT !._idx = @ + 1],
          res |-> results._results[results._idx + 1]]
    ELSE [results |-> results, res |-> <<>>]

\* CallResults.add_result
add_result(results, result) ==
    [results EXCEPT !._results = Append(@, result)]

SifRaise(s, exception) ==
    [s |-> [s EXCEPT !.error = <<exception>>], stmts |-> <<>>, res |-> <<>>]

\* a translation of a call node, as the history records it
Translated(r, node, prime) ==
    [r EXCEPT !.s.history =
                  Append(@, [id |-> node.id, prime |-> prime,
                             stmts |-> r.stmts, res |-> r.res])]

\* translate_method_call
translate_method_call(s, node, args, arg_stmts) ==
    LET call_results == s.translated_calls[node.id]
        added == IF node.typed
                 THEN add_result(add_result(call_results, <<node.id, "res">>),
                                 <<node.id, "res_p">>)
                 ELSE call_results
        targets == (IF node.typed
                    THEN << <<node.id, "res">>, <<node.id, "res_p">> >>
                    ELSE <<>>) \o << <<"tl">> >>
        call == [kind |-> "MethodCall", id |-> node.id, args |-> args,
                 targets |-> targets]
        taken == IF node.typed THEN CallResultsNext(added)
                 ELSE [results |-> added, res |-> <<>>]
    IN [s |-> [s EXCEPT !.translated_calls[node.id] = taken.results],
        stmts |-> Append(arg_stmts, call),
        res |-> taken.res]

RECURSIVE sif_translate_expr(_, _)
RECURSIVE _translate_args(_, _, _, _, _)

\* _translate_args: each argument in the primary and in the prime context
_translate_args(s, node, k, arg_stms, args) ==
    IF s.error # <<>> THEN [s |-> s, stmts |-> arg_stms, args |-> args]
    ELSE IF k > Len(node.args)
    THEN [s |-> s, stmts |-> arg_stms, args |-> Append(args, <<"tl">>)]
    ELSE LET first == sif_translate_expr(s, node.args[k])
             second == sif_translate_expr(SetUsePrime(first.s, TRUE),
                                          node.args[k])
         IN IF first.s.error # <<>>
            THEN [s |-> first.s, stmts |-> arg_stms, args |-> args]
            ELSE IF second.s.error # <<>>
            THEN [s |-> second.s, stmts |-> arg_stms, args |-> args]
            ELSE _translate_args(SetUsePrime(second.s, FALSE), node, k + 1,
                                 arg_stms \o first.stmts \o second.stmts,
                                 args \o <<first.res, second.res>>)

\* _translate_receiver
_translate_receiver(s, node) ==
    LET recv == sif_translate_expr(s, node.recv[1])
        recv_p == sif_translate_expr(SetUsePrime(recv.s, TRUE), node.recv[1])
    IN IF recv.s.error # <<>> THEN [s |-> recv.s, stmts |-> <<>>, args |-> <<>>]
       ELSE IF recv_p.s.error # <<>>
       THEN [s |-> recv_p.s, stmts |-> <<>>, args |-> <<>>]
       ELSE IF recv_p.stmts # <<>>
       THEN [s |-> SifRaise(recv_p.s, "AssertionError").s, stmts |-> <<>>,
             args |-> <<>>]
       ELSE [s |-> SetUsePrime(recv_p.s, FALSE),
             stmts |-> Append(recv.stmts,
                              [kind |-> "LocalVarAssign", id |-> node.id,
                               args |-> <<recv.res, recv_p.res>>,
                               targets |-> << <<"tl">> >>]),
             args |-> <<recv.res, recv_p.res>>]

\* translate_normal_call, for a call of a method
translate_normal_call(s, node) ==
    LET translated == _translate_args(s, node, 1, <<>>, <<>>)
    IN IF translated.s.error # <<>>
       THEN [s |-> translated.s, stmts |-> <<>>, res |-> <<>>]
       ELSE IF node.recv # <<>>
       THEN LET recv == _translate_receiver(translated.s, node)
            IN IF recv.s.error # <<>>
               THEN [s |-> recv.s, stmts |-> <<>>, res |-> <<>>]
               ELSE translate_method_call(recv.s, node,
                                          recv.args \o translated.args,
                                          translated.stmts \o recv.stmts)
       ELSE translate_method_call(translated.s, node, translated.args,
                                  translated.stmts)

\* SIFCallTranslator.translate_Call
translate_Call(s, node) ==
    IF node.id \in DOMAIN s.translated_calls
    THEN IF ~s.ctx._use_prime THEN SifRaise(s, "AssertionError")
         ELSE IF Len(s.translated_calls[node.id]._results) = 0
         THEN SifRaise(s, "AssertionError")
         ELSE LET taken == CallResultsNext(s.translated_calls[node.id])
              IN [s |-> [s EXCEPT !.translated_calls[node.id] = taken.results],
                  stmts |-> <<>>,
                  res |-> taken.res]
    ELSE translate_normal_call(
             [s EXCEPT !.translated_calls = SetItem(@, node.id, CallResults)],
             node)

\* translate_expr: a variable reads its alias; a call goes to translate_Call
sif_translate_expr(s, node) ==
    IF s.error # <<>> THEN [s |-> s, stmts |-> <<>>, res |-> <<>>]
    ELSE IF node.kind = "Var"
    THEN [s |-> s, stmts |-> <<>>,
          res |-> IF node.name \in DOMAIN s.ctx.var_aliases
                  THEN s.ctx.var_aliases[node.name]
                  ELSE <<node.name, "ref">>]
    ELSE LET r == translate_Call(s, node)
         IN IF r.s.error # <<>> THEN r
            ELSE Translated(r, node, s.ctx._use_prime)

FrameSif ==
    UNCHANGED
        <<bigint, arith, verifier, server, fold, scope, harness, errmgr,
          checker, typing, preproc, literal, oblig, cli, registry, builder,
          frontend, success, trycatch,
          interp,
          oldscope>>

SifInit == sif = [pc |-> "idle"]

\* a method body reaches an expression; the context may hold aliases
SifStart(expr, aliases) ==
    /\ sif' = [pc |-> "translating", expr |-> expr,
               ctx |-> [SIFContext EXCEPT !.var_aliases = aliases],
               translated_calls |-> <<>>, history |-> <<>>, error |-> <<>>,
               emitted |-> <<>>, entered |-> <<>>, nested |-> FALSE,
               last |-> "start", before |-> <<>>]
    /\ FrameSif

\* translate_expr(expr, ctx) by the translator of the statement
TranslateExpr ==
    /\ sif.pc = "translating"
    /\ \/ ~sif.ctx._use_prime /\ sif.history = <<>>
       \/ sif.ctx._use_prime /\ sif.history # <<>> /\ sif.expr.typed
             /\ Cardinality({k \in DOMAIN sif.history :
                                sif.history[k].id = sif.expr.id}) < 2
    /\ LET r == sif_translate_expr(sif, sif.expr)
       IN sif' = [r.s EXCEPT !.pc = IF r.s.error # <<>> THEN "failed" ELSE @,
                             !.emitted = @ \o r.stmts,
                             !.last = "translate",
                             !.before = <<sif.ctx>>]
    /\ FrameSif

\* with set_prime_ctx(ctx, aliases): __enter__
EnterPrime(aliases) ==
    /\ sif.pc = "translating"
    /\ sif' = IF sif.ctx._use_prime
              THEN [sif EXCEPT !.pc = "failed", !.error = <<"AssertionError">>,
                               !.nested = TRUE, !.last = "enter"]
              ELSE [sif EXCEPT !.ctx = set_prime_ctx(@, aliases),
                               !.entered = <<sif.ctx.var_aliases>>,
                               !.nested = FALSE, !.last = "enter"]
    /\ FrameSif

\* with set_prime_ctx(ctx, aliases): __exit__
LeavePrime ==
    /\ sif.pc = "translating"
    /\ sif' = IF ~sif.ctx._use_prime
              THEN [sif EXCEPT !.pc = "failed", !.error = <<"AssertionError">>,
                               !.last = "leave"]
              ELSE [sif EXCEPT !.ctx = set_normal_ctx(@), !.last = "leave"]
    /\ FrameSif

NextSif ==
    \/ /\ sif.pc = "idle"
       /\ \E expr \in SifExpressions, aliases \in AliasTables :
             SifStart(expr, aliases)
    \/ TranslateExpr
    \/ \E aliases \in PrimeAliases : EnterPrime(aliases)
    \/ LeavePrime

(***************************************************************************)
(* ConstantInterpreter, all its methods                                    *)
(* (nagini_translation/parsing/transformer.py)                             *)
(*                                                                         *)
(* A value is [type, v]: an int, a bool (v is 1 or 0, as bool is a         *)
(* subclass of int) or None; a float stands for the result of a negative   *)
(* power.  A node of a class without a visit method goes to generic_visit  *)
(* of ast.NodeVisitor, which visits the children and returns None.         *)
(***************************************************************************)
MaxDeclarations == 2

BoolOp(op, values) == [kind |-> "BoolOp", op |-> op, values |-> values]

Compare(left, op, right) ==
    [kind |-> "Compare", left |-> left, ops |-> <<op>>, comparators |-> <<right>>]

Call(func, args) == [kind |-> "Call", func |-> func, args |-> args]

NameConstant(value) == [kind |-> "NameConstant", value |-> value]

StrNode(s) == [kind |-> "Str", s |-> s, children |-> <<>>]

IntValue(n) == [type |-> "int", v |-> n]

BoolValue(b) == [type |-> "bool", v |-> IF b THEN 1 ELSE 0]

NoneValue == [type |-> "NoneType", v |-> 0]

IsInt(value) == value.type \in {"int", "bool"}

\* bool(value)
Truth(value) == value.v # 0

\* min(args) and max(args): the first of the least, of the greatest
Least(args, sign) ==
    LET first == CHOOSE i \in DOMAIN args :
                    /\ \A j \in DOMAIN args : sign * args[i].v <= sign * args[j].v
                    /\ \A j \in 1..(i - 1) : args[j].v # args[i].v
    IN args[first]

RECURSIVE ConstantVisit(_, _)
RECURSIVE VisitAll(_, _, _, _)

\* [self.visit(v) for v in values]: the values, or the first exception
VisitAll(values, k, constants, visited) ==
    IF k > Len(values) THEN Value(visited)
    ELSE LET operand == ConstantVisit(values[k], constants)
         IN IF ~operand.ok THEN operand
            ELSE VisitAll(values, k + 1, constants,
                          Append(visited, operand.value))

\* ConstantInterpreter.visit_BoolOp
visit_BoolOp(node, constants) ==
    LET operands == VisitAll(node.values, 1, constants, <<>>)
    IN IF ~operands.ok THEN operands
       ELSE IF node.op = "And"
       THEN Value(BoolValue(\A k \in DOMAIN operands.value :
                               Truth(operands.value[k])))
       ELSE IF node.op = "Or"
       THEN Value(BoolValue(\E k \in DOMAIN operands.value :
                               Truth(operands.value[k])))
       ELSE Value(NoneValue)

\* ConstantInterpreter.visit_BinOp
visit_BinOp(node, constants) ==
    LET operands == VisitAll(<<node.left, node.right>>, 1, constants, <<>>)
    IN IF ~operands.ok THEN operands
       ELSE LET lhs == operands.value[1]
                rhs == operands.value[2]
            IN IF node.op \notin {"Add", "Sub", "Mult", "Div", "Mod", "Pow"}
               THEN Raise("InvalidProgramException")
               ELSE IF ~IsInt(lhs) \/ ~IsInt(rhs) THEN Raise("TypeError")
               ELSE IF node.op = "Pow" /\ rhs.v < 0
               THEN IF lhs.v = 0 THEN Raise("ZeroDivisionError")
                    ELSE Value([type |-> "float", v |-> 0])
               ELSE LET result == BinOpValue(lhs.v, node.op, rhs.v)
                    IN IF result.ok THEN Value(IntValue(result.value))
                       ELSE result

\* ConstantInterpreter.visit_UnaryOp
visit_UnaryOp(node, constants) ==
    LET operand == ConstantVisit(node.operand, constants)
    IN IF ~operand.ok THEN operand
       ELSE IF node.op = "USub"
       THEN IF IsInt(operand.value) THEN Value(IntValue(-operand.value.v))
            ELSE Raise("TypeError")
       ELSE IF node.op = "Not" THEN Value(BoolValue(~Truth(operand.value)))
       ELSE Raise("InvalidProgramException")

\* ConstantInterpreter.visit_Compare: op = self.ops[0], and the interpreter
\* has no attribute ops
visit_Compare(node, constants) ==
    LET operands == VisitAll(<<node.left, node.comparators[1]>>, 1, constants,
                             <<>>)
    IN IF ~operands.ok THEN operands ELSE Raise("AttributeError")

\* ConstantInterpreter.visit_Call
visit_Call(node, constants) ==
    LET args == VisitAll(node.args, 1, constants, <<>>)
    IN IF ~args.ok THEN args
       ELSE IF node.func.kind = "Name" /\ node.func.id \in {"min", "max"}
       THEN IF args.value = <<>> THEN Raise("ValueError")
            ELSE IF \E k \in DOMAIN args.value : ~IsInt(args.value[k])
            THEN Raise("TypeError")
            ELSE Value(Least(args.value, IF node.func.id = "min" THEN 1 ELSE -1))
       ELSE Raise("InvalidProgramException")

\* ast.NodeVisitor.generic_visit
generic_visit(node, constants) ==
    LET children == VisitAll(node.children, 1, constants, <<>>)
    IN IF ~children.ok THEN children ELSE Value(NoneValue)

\* ast.NodeVisitor.visit on a ConstantInterpreter
ConstantVisit(node, constants) ==
    CASE node.kind = "BoolOp" -> visit_BoolOp(node, constants)
      [] node.kind = "BinOp" -> visit_BinOp(node, constants)
      [] node.kind = "UnaryOp" -> visit_UnaryOp(node, constants)
      [] node.kind = "Compare" -> visit_Compare(node, constants)
      [] node.kind = "Call" -> visit_Call(node, constants)
      [] node.kind = "Num" -> Value(IntValue(node.n))
      [] node.kind = "NameConstant" -> Value(BoolValue(node.value))
      [] node.kind = "Name" ->
            IF node.id \in DOMAIN constants THEN Value(constants[node.id])
            ELSE Raise("KeyError")
      [] OTHER -> generic_visit(node, constants)

ComparisonOperators == {"Eq", "NotEq", "Lt", "LtE", "Gt", "GtE"}

\* The right-hand sides of the constant declarations
ConstantExpressions ==
    {Num(2), Num(3), NameConstant(TRUE), Name("A"), StrNode("s")}
        \cup {BinOp(left, op, Num(2)) :
                 left \in {Num(3), Name("A")},
                 op \in {"Add", "Sub", "Mult", "Div", "Mod", "Pow", "BitAnd"}}
        \cup {BoolOp(op, values) :
                 op \in {"And", "Or"},
                 values \in {<<NameConstant(TRUE), Num(2)>>,
                             <<Name("A"), NameConstant(TRUE)>>}}
        \cup {Compare(Num(3), op, Num(2)) : op \in ComparisonOperators}
        \cup {UnaryOp(op, operand) :
                 op \in {"USub", "Not", "Invert"},
                 operand \in {Num(2), NameConstant(TRUE)}}
        \cup {Call(Name(func), <<Num(3), Num(2)>>) :
                 func \in {"min", "max", "len"}}

DeclaredConstants == <<"A", "B", "C", "D">>

FrameInterp ==
    UNCHANGED
        <<bigint, arith, verifier, server, fold, scope, harness, errmgr,
          checker, typing, preproc, literal, oblig, cli, registry, builder,
          frontend, success, trycatch, sif,
          oldscope>>

InterpInit == interp = [pc |-> "idle"]

\* _interpret_constants: interpreter = ConstantInterpreter(env)
InterpretConstants ==
    /\ interp.pc = "idle"
    /\ interp' = [pc |-> "interpreting",
                  env |-> [n \in {"ZERO_ADDRESS"} |-> IntValue(0)],
                  declared |-> 0, node |-> <<>>, result |-> <<>>]
    /\ FrameInterp

\* _interpret_constants: one declaration, env[name] = interpreter.visit(value)
InterpretDeclaration(value) ==
    /\ interp.pc = "interpreting"
    /\ interp.declared < MaxDeclarations
    /\ LET result == ConstantVisit(value, interp.env)
           name == DeclaredConstants[interp.declared + 1]
       IN interp' =
             [interp EXCEPT
                 !.pc = IF result.ok THEN @ ELSE "raised",
                 !.env = IF result.ok THEN Extend(@, name, result.value) ELSE @,
                 !.declared = @ + 1,
                 !.node = <<value>>,
                 !.result = <<result>>]
    /\ FrameInterp

NextInterp ==
    \/ InterpretConstants
    \/ /\ interp.pc = "interpreting"
       /\ \E value \in ConstantExpressions : InterpretDeclaration(value)

(***************************************************************************)
(* The inside-old flag of the structure checker                            *)
(* (structure_checker.py: _inside_old_scope, visit_FunctionCall)           *)
(*                                                                         *)
(* The clause is an invariant, whose table of forbidden calls holds        *)
(* neither old nor accessible.  The visit threads the checker's flag       *)
(* _inside_old; error is the code of the InvalidProgramException raised,   *)
(* after which nothing more is visited; flags records the value of the     *)
(* flag at each accessible call reached.                                   *)
(***************************************************************************)
MaxNesting == 2

ACCESSIBLE == "accessible"

RECURSIVE OldScopeVisit(_, _)
RECURSIVE OldScopeVisitNodes(_, _, _)

\* visit_nodes, generic_visit: the children in order
OldScopeVisitNodes(nodes, k, st) ==
    IF k > Len(nodes) \/ st.error # <<>> THEN st
    ELSE OldScopeVisitNodes(nodes, k + 1, OldScopeVisit(nodes[k], st))

InsideOldScopeStays(st, current_inside_old) == st

\* _inside_old_scope after the yield
LeaveInsideOldScope(st, current_inside_old) ==
    [st EXCEPT !._inside_old = current_inside_old]

\* with self._inside_old_scope(): self.generic_visit(node, ...)
VisitOld(node, st) ==
    LET current_inside_old == st._inside_old
        inside == OldScopeVisitNodes(node.args, 1,
                                     [st EXCEPT !._inside_old = TRUE])
    IN IF inside.error # <<>> THEN inside
       ELSE LeaveInsideOldScope(inside, current_inside_old)

\* visit_FunctionCall, the branch of accessible
VisitAccessible(node, st) ==
    LET reached == [st EXCEPT !.flags = Append(@, st._inside_old)]
    IN IF st._inside_old
       THEN [reached EXCEPT !.error = <<"spec.old.accessible">>]
       ELSE IF Len(node.args) \notin {2, 3}
       THEN [reached EXCEPT !.error = <<"spec.accessible">>]
       ELSE OldScopeVisitNodes(SubSeq(node.args, 1, 2), 1, reached)

\* visit_FunctionCall, the branch of forall: the dictionary of the bound
\* variables is not visited, the body is
VisitForall(node, st) ==
    IF ~(Len(node.args) >= 2 /\ node.keywords = <<>>)
    THEN [st EXCEPT !.error = <<"invalid.no.args">>]
    ELSE IF node.args[1].kind # "Dict"
    THEN [st EXCEPT !.error = <<"invalid.forall">>]
    ELSE IF \E k \in 2..(Len(node.args) - 1) : node.args[k].kind # "Set"
    THEN [st EXCEPT !.error = <<"invalid.forall">>]
    ELSE OldScopeVisitNodes(SubSeq(node.args, 2, Len(node.args)), 1, st)

\* NodeVisitor.visit
OldScopeVisit(node, st) ==
    IF st.error # <<>> THEN st
    ELSE CASE node.kind = "FunctionCall" ->
                 (CASE node.name = ACCESSIBLE -> VisitAccessible(node, st)
                    [] node.name = FORALL -> VisitForall(node, st)
                    [] node.name = OLD -> VisitOld(node, st)
                    [] OTHER -> OldScopeVisitNodes(node.args, 1, st))
           [] node.kind = "BoolOp" ->
                 OldScopeVisitNodes(<<node.left, node.right>>, 1, st)
           [] OTHER -> st

\* The invariants: names, accessible, old, forall and conjunctions
RECURSIVE Invariants(_)
Invariants(depth) ==
    IF depth = 0
    THEN {Name("x"), FunctionCall(ACCESSIBLE, <<Name("x"), Name("x")>>)}
    ELSE LET inner == Invariants(depth - 1)
         IN inner
               \cup {FunctionCall(OLD, <<e>>) : e \in inner}
               \cup {FunctionCall(FORALL, <<Bound, e>>) : e \in inner}
               \cup {FunctionCall(ACCESSIBLE, <<e, Name("x")>>) : e \in inner}
               \cup {VyperBoolOp(l, "and", r) : l \in inner, r \in inner}

FrameOldscope ==
    UNCHANGED
        <<bigint, arith, verifier, server, fold, scope, harness, errmgr,
          checker, typing, preproc, literal, oblig, cli, registry, builder,
          frontend, success, trycatch, sif, interp>>

OldscopeInit == oldscope = [pc |-> "idle"]

\* StructureChecker.__init__
StructureChecker ==
    /\ oldscope.pc = "idle"
    /\ oldscope' = [pc |-> "constructed", _inside_old |-> FALSE,
                    error |-> <<>>, flags |-> <<>>, node |-> <<>>]
    /\ FrameOldscope

\* check: self.visit(invariant, _Context.INVARIANT, program, None)
VisitInvariant(node) ==
    /\ LET st == OldScopeVisit(node, oldscope)
       IN oldscope' = [st EXCEPT !.pc = IF st.error # <<>> THEN "rejected"
                                        ELSE "checked",
                                 !.node = <<node>>]
    /\ FrameOldscope

NextOldscope ==
    \/ StructureChecker
    \/ /\ oldscope.pc = "constructed"
       /\ \E node \in Invariants(MaxNesting) : VisitInvariant(node)

(***************************************************************************)
(* Initial state and the specifications.                                   *)
(***************************************************************************)
Init ==
    /\ BigIntInit
    /\ ArithInit
    /\ VerifierInit
    /\ ServerInit
    /\ FoldInit
    /\ ScopeInit
    /\ HarnessInit
    /\ ErrMgrInit
    /\ CheckerInit
    /\ TypingInit
    /\ PreprocInit
    /\ LiteralInit
    /\ ObligInit
    /\ CliInit
    /\ RegistryInit
    /\ BuilderInit
    /\ FrontendInit
    /\ SuccessInit
    /\ TrycatchInit
    /\ SifInit
    /\ InterpInit
    /\ OldscopeInit

Next == NextBigInt \/ NextArith \/ NextVerifier \/ NextServer \/ NextFold \/ NextScope
            \/ NextHarness \/ NextErrMgr \/ NextChecker
            \/ NextTyping \/ NextPreproc \/ NextLiteral
            \/ NextOblig \/ NextCli \/ NextRegistry \/ NextBuilder
            \/ NextFrontend \/ NextSuccess \/ NextTrycatch
            \/ NextSif \/ NextInterp \/ NextOldscope

Spec == Init /\ [][Next]_vars

SpecBigInt == Init /\ [][NextBigInt]_vars

SpecArith == Init /\ [][NextArith]_vars

SpecVerifier == Init /\ [][NextVerifier]_vars

SpecFold == Init /\ [][NextFold]_vars

SpecScope == Init /\ [][NextScope]_vars

SpecHarness == Init /\ [][NextHarness]_vars

SpecErrMgr == Init /\ [][NextErrMgr]_vars /\ WF_vars(TransformErrorStep)

SpecChecker == Init /\ [][NextChecker]_vars

SpecTyping == Init /\ [][NextTyping]_vars

SpecPreproc == Init /\ [][NextPreproc]_vars

SpecLiteral == Init /\ [][NextLiteral]_vars

SpecOblig == Init /\ [][NextOblig]_vars

SpecCli == Init /\ [][NextCli]_vars

SpecRegistry == Init /\ [][NextRegistry]_vars

SpecBuilder == Init /\ [][NextBuilder]_vars

SpecFrontend == Init /\ [][NextFrontend]_vars

SpecSuccess == Init /\ [][NextSuccess]_vars

SpecTrycatch == Init /\ [][NextTrycatch]_vars

SpecSif == Init /\ [][NextSif]_vars

SpecInterp == Init /\ [][NextInterp]_vars

SpecOldscope == Init /\ [][NextOldscope]_vars

\* main is a sequential program: it takes its next step when it has one.
SpecServer == Init /\ [][NextServer]_vars /\ WF_vars(MainStep)

(***************************************************************************)
(* Running emitted statements, for the properties of the arithmetic        *)
(* translator.  env.value says where the mathematical result lies relative *)
(* to the bounds of the type ("below", "in", "above"); env.rhsZero says    *)
(* whether the divisor is zero.  A jump to the revert label ends the run.  *)
(***************************************************************************)
RECURSIVE EvalCond(_, _)
EvalCond(c, env) ==
    CASE c.kind = "EqCmp" -> env.rhsZero
      [] c.kind = "LtCmp" -> env.value = "below"
      [] c.kind = "GtCmp" -> IF c.right = "upper"
                             THEN env.value = "above"
                             ELSE env.value = "below"   \* rhs > lhs
      [] c.kind = "Or" -> EvalCond(c.left, env) \/ EvalCond(c.right, env)

RECURSIVE RunStmts(_, _, _)
RunStmts(stmts, env, st) ==
    IF stmts = <<>> \/ st.reverted
    THEN st
    ELSE LET s == Head(stmts)
             st1 == CASE s.kind = "Goto" -> [st EXCEPT !.reverted = TRUE]
                      [] s.kind = "LocalVarAssign" ->
                            [st EXCEPT !.overflow = TRUE]
                      [] s.kind = "If" ->
                            IF EvalCond(s.cond, env)
                            THEN RunStmts(s.then, env, st)
                            ELSE RunStmts(s.else, env, st)
         IN RunStmts(Tail(stmts), env, st1)

Outcome(res, value, rhsZero) ==
    RunStmts(res, [value |-> value, rhsZero |-> rhsZero],
             [reverted |-> FALSE, overflow |-> FALSE])

PlainRevert == [reverted |-> TRUE, overflow |-> FALSE]

OverflowRevert == [reverted |-> TRUE, overflow |-> TRUE]

(***************************************************************************)
(* C1: for every integer n, to_big_int(n) has the value n; in particular   *)
(* both 5,000,000,000 and -5,000,000,000 are reproduced exactly.           *)
(***************************************************************************)
C1_ToBigIntExact == bigint.pc = "done" => bigint.result = bigint.num

(***************************************************************************)
(* C2: with reverts enabled and overflow checking not disabled, the        *)
(* statements emitted for a bounded-type binary operation make an unsigned *)
(* result below the lower bound revert without setting the overflow flag,  *)
(* and make a result above the upper bound, and any out-of-range result of *)
(* a signed type, set the overflow flag before the revert.                 *)
(***************************************************************************)
C2_Case ==
    /\ arith.pc = "done"
    /\ arith.translator = "twovyper"
    /\ arith.arity = 2
    /\ ~arith.no_reverts
    /\ ~arith.no_overflows
    /\ is_bounded(arith.otype)

C3_Division ==
    /\ arith.pc = "done"
    /\ arith.arity = 2
    /\ arith.op \in {"DIV", "MOD", "Div", "Mod"}

C4_RestartBetweenVerifications ==
    verifier.pc = "constructed" =>
        LET log == verifier.log
        IN /\ log[1].ev = "start"
           /\ \A i \in DOMAIN log :
                 /\ log[i].ev = "start" => i = 1
                 /\ log[i].ev = "verify" =>
                       \/ i = 2
                       \/ i > 2 /\ log[i - 1].ev = "restart"
                 /\ log[i].ev = "restart" =>
                       /\ i > 2
                       /\ log[i - 1].ev = "verify"
                       /\ i < Len(log)
                       /\ log[i + 1].ev = "verify"

(***************************************************************************)
(* C5: in server mode every request sent to the server is answered with    *)
(* one reply (the n-th request by the n-th reply).                         *)
(***************************************************************************)
C5_EveryRequestAnswered ==
    \A n \in 1..MaxPending :
        [](Len(server.inbox) >= n => <>(Len(server.replies) >= n))

(***************************************************************************)
(* C6: folding the division of a by b (b # 0) gives the quotient truncated *)
(* toward zero for every sign combination of a and b (-7 / 2 folds to -3). *)
(***************************************************************************)
TruncDiv(a, b) ==
    LET q == Abs(a) \div Abs(b)
    IN IF (a < 0) = (b < 0) THEN q ELSE -q

C6_DivisionTruncatesTowardZero ==
    (fold.pc = "folded" /\ fold.op = "Div" /\ fold.rhs # 0) =>
        /\ fold.result.ok
        /\ fold.result.value = TruncDiv(fold.lhs, fold.rhs)

(***************************************************************************)
(* C7: transform removes every constant declaration and replaces every     *)
(* reference to a declared constant and to ZERO_ADDRESS, at module level   *)
(* and in function bodies, by a literal of the folded value.               *)
(***************************************************************************)
RECURSIVE NamesOfExpr(_)
NamesOfExpr(node) ==
    CASE node.kind = "Name" -> {node.id}
      [] node.kind = "UnaryOp" -> NamesOfExpr(node.operand)
      [] node.kind = "BinOp" -> NamesOfExpr(node.left) \cup NamesOfExpr(node.right)
      [] OTHER -> {}

RECURSIVE NamesOfStmts(_)
NamesOfStmts(stmts) ==
    UNION {IF stmts[i].kind = "FunctionDef"
           THEN NamesOfStmts(stmts[i].body)
           ELSE NamesOfExpr(stmts[i].value) : i \in DOMAIN stmts}

ConstantDecls(body) == SelectSeq(body, IsConstantDecl)

ConstantNames(body) == DeclaredNames(body) \cup {"ZERO_ADDRESS"}

\* the value of the constant id, given the declarations in their order
RECURSIVE ConstValue(_, _)
ConstValue(id, decls) ==
    IF \A i \in DOMAIN decls : decls[i].target # id
    THEN 0
    ELSE LET i == CHOOSE j \in DOMAIN decls : decls[j].target = id
             before == SubSeq(decls, 1, i - 1)
             known == {before[j].target : j \in DOMAIN before}
                          \cup {"ZERO_ADDRESS"}
             env == [n \in known |-> ConstValue(n, before)]
         IN visit(decls[i].value, env).value

\* the node a value is written as: a number, or minus a number
LiteralOf(v) == IF v < 0 THEN UnaryOp("USub", Num(-v)) ELSE Num(v)

RECURSIVE ExprReplaced(_, _, _)
ExprReplaced(in, out, body) ==
    CASE in.kind = "Name" ->
            IF in.id \in ConstantNames(body)
            THEN out = LiteralOf(ConstValue(in.id, ConstantDecls(body)))
            ELSE out = in
      [] in.kind = "UnaryOp" ->
            /\ out.kind = "UnaryOp" /\ out.op = in.op
            /\ ExprReplaced(in.operand, out.operand, body)
      [] in.kind = "BinOp" ->
            /\ out.kind = "BinOp" /\ out.op = in.op
            /\ ExprReplaced(in.left, out.left, body)
            /\ ExprReplaced(in.right, out.right, body)
      [] OTHER -> out = in

RECURSIVE StmtsReplaced(_, _, _)
StmtsReplaced(in, out, body) ==
    /\ Len(out) = Len(in)
    /\ \A i \in DOMAIN in :
          /\ out[i].kind = in[i].kind
          /\ IF in[i].kind = "FunctionDef"
             THEN StmtsReplaced(in[i].body, out[i].body, body)
             ELSE ExprReplaced(in[i].value, out[i].value, body)

Substituted(body, tree) ==
    /\ \A i \in DOMAIN tree : ~IsConstantDecl(tree[i])
    /\ NamesOfStmts(tree) \cap ConstantNames(body) = {}
    /\ StmtsReplaced(SelectSeq(body, IsNotConstantDecl), tree, body)

TenDivThree == BinOp(Num(10), "Div", Num(3))

TenFloorDivThree == BinOp(Num(10), "FloorDiv", Num(3))

UsesFloorDiv(body) ==
    \E i \in DOMAIN body :
        IsConstantDecl(body[i]) /\ body[i].value = TenFloorDivThree

ExampleDeclarations(body) ==
    \A i \in DOMAIN body :
        IsConstantDecl(body[i]) =>
            body[i].value \in {Num(10), TenDivThree, TenFloorDivThree}

ExampleValue(expr) == IF expr = Num(10) THEN 10 ELSE 3

Ancestors(s) ==
    CASE s = "program" -> {"program"}
      [] s = "class" -> {"class", "program"}
      [] s = "method" -> {"method", "class", "program"}

Visible(s, sil_names) == UNION {Range(sil_names[a]) : a \in Ancestors(s)}

LastCall == scope.returned[Len(scope.returned)]

C8_FreshNameSmallestSuffix ==
    (scope.pc = "constructed" /\ scope.returned # <<>>) =>
        LET s == LastCall.scope
            base == LastCall.name
            result == LastCall.result
            taken == Visible(s, scope.before)
        IN /\ base \notin taken => result = base
           /\ base \in taken =>
                 \E k \in 0..MaxFreshCalls :
                     /\ result = Suffixed(base, k)
                     /\ result \notin taken
                     /\ \A j \in 0..(k - 1) : Suffixed(base, j) \in taken
           /\ scope.sil_names[s] = Append(scope.before[s], result)
           /\ \A o \in Scopes \ {s} : scope.sil_names[o] = scope.before[o]
           /\ (Len(scope.returned) = 2
                 /\ scope.returned[1] = [scope |-> s, name |-> <<"f">>,
                                         result |-> <<"f">>]
                 /\ base = <<"f">>) => result = <<"f", "_", "0">>
           /\ (s # "program" /\ base = <<"f">>
                 /\ <<"f">> \in Range(scope.before[superscope(s)])
                 /\ <<"f", "_", "0">> \notin taken) =>
                    result = <<"f", "_", "0">>

C8_Witness ==
    /\ scope.pc = "constructed"
    /\ scope.returned =
          << [scope |-> "class", name |-> <<"f">>, result |-> <<"f">>],
             [scope |-> "class", name |-> <<"f">>, result |-> <<"f", "_", "0">>],
             [scope |-> "method", name |-> <<"f">>, result |-> <<"f", "_", "1">>] >>

(***************************************************************************)
(* C9: the comparison passes exactly when every actual diagnostic (l, id)  *)
(* has an expectation (l - 1, id) and every expectation (L, id) has an     *)
(* actual diagnostic (L + 1, id); an expectation on line L is satisfied    *)
(* by, and only by, a failure with the same identifier on line L + 1.      *)
(***************************************************************************)
AllMatched(actual, expected) ==
    /\ \A i \in DOMAIN actual :
          \E j \in DOMAIN expected :
              expected[j][1] = actual[i][1] - 1 /\ expected[j][2] = actual[i][2]
    /\ \A j \in DOMAIN expected :
          \E i \in DOMAIN actual :
              actual[i][1] = expected[j][1] + 1 /\ actual[i][2] = expected[j][2]

C9_AcceptsExactlyMatched ==
    /\ harness.pc = "compared" =>
          /\ harness.outcome.passed
                <=> AllMatched(harness.actual, harness.expected)
          /\ (Len(harness.actual) = 1 /\ Len(harness.expected) = 1) =>
                (harness.outcome.passed
                    <=> /\ harness.actual[1][1] = harness.expected[1][1] + 1
                        /\ harness.actual[1][2] = harness.expected[1][2])
    /\ (harness.pc = "evaluated" /\ harness.result.missing_info = <<>>) =>
          (harness.result.outcome.passed
              <=> AllMatched(harness.result.actual_lo,
                             harness.result.expected_lo))

C9_Witness ==
    /\ harness.pc = "evaluated"
    /\ harness.result.outcome.passed
    /\ harness.result.expected_lo = << <<1, IdA>> >>
    /\ harness.result.actual_lo = << <<2, IdA>> >>

(***************************************************************************)
(* C10: the pairs recorded for one annotation comment on line L.  For the  *)
(* comment #:: ExpectedOutput(id1);...;ExpectedOutput(idn) they are        *)
(* (L, id1), ..., (L, idn); for #:: ExpectedOutput(id1;...;idn) they are   *)
(* that only when n = 1: for n >= 2 the first identifier loses its last    *)
(* character and the others are recorded as empty.                         *)
(***************************************************************************)
PairsOf(line, ids) == [i \in DOMAIN ids |-> <<line, ids[i]>>]

HasUnexpected(actual, expected) ==
    \E i \in DOMAIN actual : <<actual[i][1] - 1, actual[i][2]>> \notin Range(expected)

HasMissing(actual, expected) ==
    \E j \in DOMAIN expected :
        <<expected[j][1] + 1, expected[j][2]>> \notin Range(actual)

\* the assert statements whose failure the outcome reports
Reported(outcome) == IF outcome.passed THEN {} ELSE {outcome.failed}

C11_ReportsBothDiscrepancies ==
    (harness.pc = "compared"
        /\ HasUnexpected(harness.actual, harness.expected)
        /\ HasMissing(harness.actual, harness.expected)) =>
            {"not actual_unexpected", "not missing_expected"}
                \subseteq Reported(harness.outcome)

(***************************************************************************)
(* C12: transformError returns a fixpoint of transformedError, applying    *)
(* transformError to its own result returns the same error, and the loop   *)
(* terminates whenever the chain error, error.transformedError(), ...      *)
(* reaches a fixpoint.                                                     *)
(***************************************************************************)
RECURSIVE Iterated(_, _, _)
Iterated(transformed, error, k) ==
    IF k = 0 THEN error ELSE Iterated(transformed, transformed[error], k - 1)

ReachesFixpoint(transformed, error) ==
    \E k \in 0..MaxBackendErrors :
        LET e == Iterated(transformed, error, k) IN transformed[e] = e

ReturnsFixpoint ==
    errmgr.pc = "returned" =>
        /\ errmgr.transformed[errmgr.error] = errmgr.error
        /\ errmgr.previous # None => errmgr.error = errmgr.previous
        /\ \E k \in 0..MaxBackendErrors :
              errmgr.error = Iterated(errmgr.transformed, errmgr.input, k)

C12_TransformErrorFixpoint ==
    /\ []ReturnsFixpoint
    /\ [](errmgr.pc = "loop"
            /\ ReachesFixpoint(errmgr.transformed, errmgr.input)
                => <>(errmgr.pc = "returned"))

C12_Witness ==
    /\ errmgr.pc = "returned"
    /\ errmgr.previous # None
    /\ errmgr.error = errmgr.previous
    /\ errmgr.transformed = [e \in BackendErrors |->
                                IF e < MaxBackendErrors THEN e + 1 ELSE e]
    /\ errmgr.error = MaxBackendErrors

(***************************************************************************)
(* C13: a forall or foreach visits its triggers and its body under the     *)
(* context it is visited under itself, so a name or call forbidden in the  *)
(* context of a clause is rejected at every quantifier nesting depth in    *)
(* the clause (msg in a forall body in an invariant).                      *)
(***************************************************************************)
IsQuantifier(node) ==
    node.kind = "FunctionCall" /\ node.name \in {FORALL, FOREACH}

\* the node is forbidden under ctx, or holds such a node below quantifiers,
\* attributes, sets, old and calls that are not ghost statements
RECURSIVE HoldsForbidden(_, _, _)
HoldsForbidden(node, ctx, allowed) ==
    CASE node.kind = "Name" ->
            \/ ctx = INVARIANT /\ node.id \in {MSG, BLOCK}
            \/ ctx = TRANSITIVE_POSTCONDITION /\ node.id = MSG
      [] node.kind = "Attribute" -> HoldsForbidden(node.value, ctx, allowed)
      [] node.kind = "Set" ->
            \E i \in DOMAIN node.elements :
                HoldsForbidden(node.elements[i], ctx, allowed)
      [] node.kind = "Dict" -> FALSE
      [] node.kind = "FunctionCall" ->
            \/ node.name \in allowed[ctx]
            \/ /\ IsQuantifier(node)
               /\ \E i \in 2..Len(node.args) :
                     HoldsForbidden(node.args[i], ctx, allowed)
            \/ /\ ~IsQuantifier(node)
               /\ node.name \notin GHOST_STATEMENTS
               /\ \E i \in DOMAIN node.args :
                     HoldsForbidden(node.args[i], ctx, allowed)

Rejected == checker.result.error # <<>>

VisitedUnder(node, ctx) ==
    \E i \in DOMAIN checker.result.visits :
        checker.result.visits[i] = <<node, ctx>>

C14_WidestCapacityRetained ==
    (typing.pc = "combined" /\ typing.allowed = "any"
        /\ Len(typing.types1) = 1 /\ is_array(typing.types1[1])) =>
        LET e == typing.types1[1]
            others == MatchingArrays(e, typing.types2)
        IN IF others = <<>>
           THEN typing.result.error = <<"wrong.type">>
           ELSE /\ typing.result.error = <<>>
                /\ Len(typing.result.types) = 1
                /\ typing.result.types[1] \in Range(others)
                /\ \A i \in DOMAIN others :
                      others[i].size <= typing.result.types[1].size
                /\ e.size <= typing.result.types[1].size

(***************************************************************************)
(* C15: matches(t, m) holds exactly when t and m are non-strict arrays of  *)
(* equal element types with t.size <= m.size, or both are integer types,   *)
(* or t is a contract type and m the address type, or t equals m; a        *)
(* non-strict byte[5] matches a non-strict byte[10] and not the reverse.   *)
(***************************************************************************)
NonStrictArray(t) == t.class \in {"ArrayType", "StringType"} /\ ~t.is_strict

IntegerTypes == {INT128, UINT256}

C15_MatchesExactly ==
    typing.pc = "matched" =>
        /\ typing.result <=>
              \/ /\ NonStrictArray(typing.t) /\ NonStrictArray(typing.m)
                 /\ typing.t.element_type = typing.m.element_type
                 /\ typing.t.size <= typing.m.size
              \/ typing.t \in IntegerTypes /\ typing.m \in IntegerTypes
              \/ typing.t.class = "ContractType" /\ typing.m = VYPER_ADDRESS
              \/ typing.t = typing.m
        /\ (typing.t = ArrayType(VYPER_BYTE, 5, FALSE)
              /\ typing.m = ArrayType(VYPER_BYTE, 10, FALSE)) => typing.result
        /\ (typing.t = ArrayType(VYPER_BYTE, 10, FALSE)
              /\ typing.m = ArrayType(VYPER_BYTE, 5, FALSE)) => ~typing.result

C15_Witness ==
    /\ typing.pc = "matched"
    /\ typing.t = ArrayType(VYPER_BYTE, 5, FALSE)
    /\ typing.m = ArrayType(VYPER_BYTE, 10, FALSE)
    /\ typing.result

(***************************************************************************)
(* C16: preprocess keeps every character outside a matched marker on its   *)
(* line and column and replaces the marker by its rewrite padded to the    *)
(* width of the marker, for each of the eleven rewrites and every amount   *)
(* of whitespace the pattern admits.                                       *)
(***************************************************************************)
\* the line and the column of the i-th character
RECURSIVE LineColumn(_, _)
LineColumn(program, i) ==
    IF i = 1
    THEN <<1, 1>>
    ELSE LET previous == LineColumn(program, i - 1)
         IN IF program[i - 1] = "\n"
            THEN <<previous[1] + 1, 1>>
            ELSE <<previous[1], previous[2] + 1>>

C16_ColumnsPreserved ==
    preproc.pc = "done" =>
        LET width == preproc.hi - preproc.lo + 1
            behind == Len(preproc.program) - preproc.hi
            shift == Len(preproc.result) - Len(preproc.program)
            rewrite == Rewrites[preproc.rewrite]
        IN /\ shift = 0
           /\ \A i \in 1..(preproc.lo - 1) :
                 /\ preproc.result[i] = preproc.program[i]
                 /\ LineColumn(preproc.result, i) = LineColumn(preproc.program, i)
           /\ \A i \in 1..behind :
                 /\ preproc.result[preproc.hi + shift + i]
                       = preproc.program[preproc.hi + i]
                 /\ LineColumn(preproc.result, preproc.hi + shift + i)
                       = LineColumn(preproc.program, preproc.hi + i)
           /\ SubSeq(preproc.result, preproc.lo, preproc.hi)
                 = rewrite.start
                      \o Spaces(width - Len(rewrite.start) - Len(rewrite.end))
                      \o rewrite.end

(***************************************************************************)
(* C17: a decimal literal i.f with at most ten fractional digits parses to *)
(* exactly i * 10^10 + f * 10^(10 - len(f)), so 2.3 is 23,000,000,000; a   *)
(* literal with more than ten fractional digits is rejected with           *)
(* invalid.decimal.literal and never rounded or truncated.                 *)
(***************************************************************************)
\* the value of a short sequence of digit characters
RECURSIVE SmallValue(_)
SmallValue(s) ==
    IF s = <<>> THEN 0 ELSE 10 * SmallValue(SubSeq(s, 1, Len(s) - 1)) + DigitOf(s[Len(s)])

RECURSIVE SmallDigitsValue(_)
SmallDigitsValue(d) ==
    IF d = <<>> THEN 0 ELSE 10 * SmallDigitsValue(SubSeq(d, 1, Len(d) - 1)) + d[Len(d)]

\* the scaled value written with at least eleven digits: its ten lowest
\* digits are the fraction and the digits above them the integer part
ScaledDigits == RJust(literal.result.scaled_value, 11, 0)

C17_DecimalLiteralExact ==
    literal.pc = "parsed" =>
        IF Len(literal.second) > 10
        THEN literal.result.error = "invalid.decimal.literal"
        ELSE /\ literal.result.error = "none"
             /\ LET digits == ScaledDigits
                    high == SubSeq(digits, 1, Len(digits) - 10)
                    low == SubSeq(digits, Len(digits) - 9, Len(digits))
                IN /\ SmallDigitsValue(high) = SmallValue(literal.first)
                   /\ \A k \in 1..10 :
                         low[k] = IF k <= Len(literal.second)
                                  THEN DigitOf(literal.second[k])
                                  ELSE 0
             /\ (literal.result.scaled_value # <<>>
                    => Head(literal.result.scaled_value) # 0)
             /\ (literal.first = <<"2">> /\ literal.second = <<"3">>) =>
                   literal.result.scaled_value = <<2, 3, 0, 0, 0, 0, 0, 0, 0, 0, 0>>

C17_Witness ==
    /\ literal.pc = "parsed"
    /\ literal.first = <<"2">>
    /\ literal.second = <<"3">>
    /\ literal.result.scaled_value = <<2, 3, 0, 0, 0, 0, 0, 0, 0, 0, 0>>

(***************************************************************************)
(* C18: an override whose MustTerminate or MustRelease measure is strictly *)
(* larger than the overridden method's is rejected by the verification,    *)
(* and one whose measure is equal or smaller verifies: against             *)
(* MustTerminate(2), MustTerminate(3) fails and MustTerminate(1) and       *)
(* MustTerminate(2) verify.                                                *)
(***************************************************************************)
OverrideRejected == oblig.st.error # "none"

PathsChecked == cli.pc \notin {"idle", "parsed"}

C19_AnyMissingPathIsUsageError ==
    PathsChecked =>
        (~(Truthy(cli.classpath) /\ Truthy(cli.boogie_path) /\ Truthy(cli.z3_path))
            => (cli.pc = "usage_error" /\ ~cli.jvm /\ ~cli.file_read))

MissingRequired ==
    \/ ~Truthy(cli.classpath)
    \/ ~Truthy(cli.z3_path)
    \/ cli.verifier = "carbon" /\ ~Truthy(cli.boogie_path)

C19_RequiredPathsChecked ==
    /\ PathsChecked =>
          /\ MissingRequired <=> cli.pc = "usage_error"
          /\ MissingRequired => (cli.error # "none" /\ ~cli.jvm /\ ~cli.file_read)
    /\ cli.pc = "parsed" =>
          (~cli.jvm /\ ~cli.file_read)

C19_Witness ==
    /\ cli.pc = "usage_error"
    /\ cli.verifier = "carbon"
    /\ Truthy(cli.classpath)
    /\ Truthy(cli.z3_path)
    /\ ~Truthy(cli.boogie_path)
    /\ cli.error = "missing argument: --boogie"
    /\ ~cli.jvm

(***************************************************************************)
(* C20: after any sequence of get_fresh_name calls on the scopes of one    *)
(* program, in any order, no name is recorded twice in one scope and no    *)
(* name is recorded in two scopes of which one is an ancestor of the       *)
(* other.                                                                  *)
(***************************************************************************)
RECURSIVE IsAncestor(_, _)
IsAncestor(a, s) ==
    superscope(s) # "None"
        /\ (superscope(s) = a \/ IsAncestor(a, superscope(s)))

RecordedOnce(names) ==
    \A i, j \in DOMAIN names : names[i] = names[j] => i = j

C20_NamesUniqueAlongAncestors ==
    scope.pc = "constructed" =>
        /\ \A s \in Scopes : RecordedOnce(scope.sil_names[s])
        /\ \A a, s \in Scopes :
              IsAncestor(a, s) =>
                 Range(scope.sil_names[a]) \cap Range(scope.sil_names[s]) = {}

(***************************************************************************)
(* C21: add_error_information returns an identifier different from every   *)
(* identifier returned before; the registry holds exactly the identifiers  *)
(* returned since the last clear, each with its info and with rules only   *)
(* when rules were given; a translation run clears before it registers, so *)
(* after a run the registry holds the identifiers of that run only.        *)
(***************************************************************************)
RegisteredIds == {r.id : r \in registry.registered}

C21_RegistryHoldsRegistered ==
    registry.pc # "idle" =>
        /\ \A i, j \in DOMAIN registry.returned :
              registry.returned[i] = registry.returned[j] => i = j
        /\ DOMAIN registry._items = RegisteredIds
        /\ \A r \in registry.registered :
              /\ registry._items[r.id] = r.info
              /\ (r.id \in DOMAIN registry._conversion_rules) <=> (r.rules # None)
              /\ r.rules # None => registry._conversion_rules[r.id] = r.rules
        /\ DOMAIN registry._conversion_rules \subseteq RegisteredIds
        /\ registry.pc \in {"translating", "translated"} =>
              DOMAIN registry._items = registry.run

C21_Witness ==
    /\ registry.pc = "translated"
    /\ Len(registry.returned) = 3
    /\ DOMAIN registry._items = {3}
    /\ DOMAIN registry._conversion_rules = {}
    /\ registry.run = {3}

(***************************************************************************)
(* C22: every function definition receives exactly the local               *)
(* postconditions and checks declared after the previous function          *)
(* definition (or the start of the file) and before it, in declaration     *)
(* order; the pending lists are empty right after a function definition;   *)
(* a clause not yet attached is pending, so none is attached twice and     *)
(* none is dropped.                                                        *)
(***************************************************************************)
\* the clauses called name that the statement at position i declares
LocalAt(module, i, name) ==
    LET stmt == module[i]
    IN IF stmt.node = "Assign"
       THEN IF stmt.what = name THEN <<<<i>>>> ELSE <<>>
       ELSE [k \in 1..Len(SelectSeq([j \in 1..Len(stmt.body) |-> j],
                          LAMBDA j : stmt.body[j] = SpecAssign(name)))
               |-> <<i, SelectSeq([j \in 1..Len(stmt.body) |-> j],
                          LAMBDA j : stmt.body[j] = SpecAssign(name))[k]>>]

RECURSIVE LocalBetween(_, _, _, _)
LocalBetween(module, lo, hi, name) ==
    IF lo > hi THEN <<>>
    ELSE LocalAt(module, lo, name) \o LocalBetween(module, lo + 1, hi, name)

FunctionPositions(module) ==
    {i \in DOMAIN module : module[i].node = "FunctionDef"}

\* the position of the last function definition before position p, or 0
PreviousFunction(module, p) ==
    LET before == {i \in FunctionPositions(module) : i < p}
    IN IF before = {} THEN 0 ELSE CHOOSE i \in before : \A j \in before : j <= i

C22_ClausesGoToNextFunction ==
    builder.pc # "idle" =>
        LET module == builder.module
            b == builder.b
            visited == builder.pos - 1
        IN /\ {f.name : f \in Range(b.functions)} =
                  {<<p>> : p \in {i \in FunctionPositions(module) : i <= visited}}
           /\ \A k \in DOMAIN b.functions :
                 LET p == b.functions[k].name[1]
                     q == PreviousFunction(module, p)
                 IN /\ \A l \in DOMAIN b.functions :
                          b.functions[l].name = b.functions[k].name => l = k
                    /\ b.functions[k].postconditions =
                          LocalBetween(module, q + 1, p - 1, "ensures")
                    /\ b.functions[k].checks =
                          LocalBetween(module, q + 1, p - 1, "check")
           /\ (/\ builder.pc = "visiting"
               /\ visited >= 1
               /\ module[visited].node = "FunctionDef") =>
                 b.postconditions = <<>> /\ b.checks = <<>>
           /\ builder.pc = "visiting" =>
                 LET q == PreviousFunction(module, builder.pos)
                 IN /\ b.postconditions =
                          LocalBetween(module, q + 1, visited, "ensures")
                    /\ b.checks = LocalBetween(module, q + 1, visited, "check")

C22_Witness ==
    /\ builder.pc = "built"
    /\ Len(builder.b.functions) = 2
    /\ builder.b.functions[1].postconditions = <<<<1, 1>>>>
    /\ builder.b.functions[2].postconditions = <<>>

(***************************************************************************)
(* C23: when a local postcondition or check is pending and the file ends   *)
(* or a top-level statement other than a function definition is reached (a *)
(* state variable or event, a struct or contract, a config assignment, an  *)
(* invariant, a general postcondition, a general check, a preserves        *)
(* block), building fails with 'local.spec'.                               *)
(***************************************************************************)
LocalSpecPending == builder.b.postconditions # <<>> \/ builder.b.checks # <<>>

\* the statement the builder reaches ends the clauses of a function
NonFunctionReached ==
    \/ builder.pos > Len(builder.module)
    \/ /\ builder.pos <= Len(builder.module)
       /\ builder.module[builder.pos].node # "FunctionDef"
       /\ builder.module[builder.pos] \notin
              {SpecAssign("ensures"), SpecAssign("check")}

C24_ForeignExceptionReraised ==
    (frontend.pc # "idle" /\ frontend.foreign) =>
        /\ frontend.pc = "terminated"
        /\ frontend.raised = <<"JException">>
        /\ \E k \in DOMAIN frontend.out :
              /\ frontend.out[k] = "stacktrace"
              /\ \A l \in DOMAIN frontend.out :
                    l > k => frontend.out[l] \in {"stacktrace", "traceback"}

(***************************************************************************)
(* C25: a success call is accepted only with no arguments at all, or with  *)
(* exactly one keyword, if_not, whose value is made of names of success    *)
(* conditions joined by `or`; every other shape (a positional argument,    *)
(* another keyword, more than one keyword, another expression in if_not)   *)
(* is rejected with a structural error.                                    *)
(***************************************************************************)
RECURSIVE ConditionsJoinedByOr(_)
ConditionsJoinedByOr(node) ==
    \/ node.kind = "Name" /\ node.id \in SUCCESS_CONDITIONS
    \/ /\ node.kind = "BoolOp"
       /\ node.op = "or"
       /\ ConditionsJoinedByOr(node.left)
       /\ ConditionsJoinedByOr(node.right)

SuccessShape(node) ==
    /\ node.args = <<>>
    /\ \/ node.keywords = <<>>
       \/ /\ Len(node.keywords) = 1
          /\ node.keywords[1].name = SUCCESS_IF_NOT
          /\ ConditionsJoinedByOr(node.keywords[1].value)

C25_SuccessShapeOnly ==
    success.pc \in {"accepted", "rejected"} =>
        /\ (success.pc = "accepted") <=> SuccessShape(success.node)
        /\ success.pc = "rejected" => success.error # <<>>

(***************************************************************************)
(* C26: when the call lies inside a try block with a finally block, the    *)
(* error path assigns 2 to the finally-dispatch variable of the nearest    *)
(* such block and has the raised error in that block's error variable (by  *)
(* an assignment, unless the call left it there) before it jumps to the    *)
(* finally label.                                                          *)
(***************************************************************************)
C26_ErrorPathToFinally ==
    (trycatch.pc = "translated" /\ FirstWithFinally(trycatch.tries) # 0) =>
        LET try_ == trycatch.tries[FirstWithFinally(trycatch.tries)]
            var == trycatch.var[1]
            block == trycatch.uncaught_option[1]
        IN /\ block.kind = "Seqn"
           /\ \E g \in DOMAIN block.stmts :
                 /\ block.stmts[g] = Goto(try_.finally_name)
                 /\ try_.finally_var # <<>>
                 /\ \E a \in 1..(g - 1) :
                       block.stmts[a] =
                           LocalVarAssign(try_.finally_var[1], IntLit(2))
                 /\ \/ try_.error_var = <<var>>
                    \/ /\ try_.error_var # <<>>
                       /\ \E e \in 1..(g - 1) :
                             /\ block.stmts[e].kind = "LocalVarAssign"
                             /\ block.stmts[e].var = try_.error_var[1]
                             /\ block.stmts[e].value = var

(***************************************************************************)
(* C27: the call statement of a call node is emitted exactly once, by the  *)
(* first translation of the node; every later translation of the node      *)
(* happens in prime mode, emits no statement and returns the next buffered *)
(* result in the order of recording, which is there and is not None.       *)
(***************************************************************************)
CallStatements(stmts, id) ==
    {k \in DOMAIN stmts : stmts[k].kind = "MethodCall" /\ stmts[k].id = id}

EarlierTranslations(k) ==
    {j \in 1..(k - 1) : sif.history[j].id = sif.history[k].id}

RECURSIVE StatedShape(_, _)
StatedShape(node, folded) ==
    CASE node.kind = "BoolOp" ->
            /\ node.op \in {"And", "Or"}
            /\ \A k \in DOMAIN node.values : StatedShape(node.values[k], folded)
      [] node.kind = "BinOp" ->
            /\ node.op \in {"Add", "Sub", "Mult", "Div", "Mod", "Pow"}
            /\ StatedShape(node.left, folded)
            /\ StatedShape(node.right, folded)
      [] node.kind = "UnaryOp" ->
            node.op \in {"USub", "Not"} /\ StatedShape(node.operand, folded)
      [] node.kind = "Compare" ->
            /\ node.ops[1] \in ComparisonOperators
            /\ StatedShape(node.left, folded)
            /\ StatedShape(node.comparators[1], folded)
      [] node.kind = "Call" ->
            /\ node.func \in {Name("min"), Name("max")}
            /\ \A k \in DOMAIN node.args : StatedShape(node.args[k], folded)
      [] node.kind \in {"Num", "NameConstant"} -> TRUE
      [] node.kind = "Name" -> node.id \in folded
      [] OTHER -> FALSE

\* a reference to a name that is no folded constant is left aside
RECURSIVE NamesFolded(_, _)
NamesFolded(node, folded) ==
    CASE node.kind = "BoolOp" ->
            \A k \in DOMAIN node.values : NamesFolded(node.values[k], folded)
      [] node.kind = "BinOp" ->
            NamesFolded(node.left, folded) /\ NamesFolded(node.right, folded)
      [] node.kind = "UnaryOp" -> NamesFolded(node.operand, folded)
      [] node.kind = "Compare" ->
            /\ NamesFolded(node.left, folded)
            /\ NamesFolded(node.comparators[1], folded)
      [] node.kind = "Call" ->
            \A k \in DOMAIN node.args : NamesFolded(node.args[k], folded)
      [] node.kind = "Name" -> node.id \in folded
      [] OTHER -> TRUE

C29_StatedShapesOnly ==
    (interp.pc # "idle" /\ interp.node # <<>>) =>
        LET node == interp.node[1]
            result == interp.result[1]
            folded == IF result.ok
                      THEN DOMAIN interp.env
                               \ {DeclaredConstants[interp.declared]}
                      ELSE DOMAIN interp.env
        IN NamesFolded(node, folded) =>
              IF StatedShape(node, folded)
              THEN result.ok \/ result.error \in {"ZeroDivisionError"}
              ELSE ~result.ok /\ result.error = "InvalidProgramException"

(***************************************************************************)
(* C30: an accessible call is rejected with 'spec.old.accessible' exactly  *)
(* when it lies inside the arguments of an enclosing old call, at any      *)
(* depth and through quantifier bodies; once the old subtree is left the   *)
(* flag has its previous value, so an accessible call after or beside an   *)
(* old call is not rejected.                                               *)
(***************************************************************************)
RECURSIVE AccessibleInsideOld(_, _)
\* some accessible call of the node lies inside an old call (inside says
\* whether the node itself does)
AccessibleInsideOld(node, inside) ==
    CASE node.kind = "FunctionCall" ->
            \/ node.name = ACCESSIBLE /\ inside
            \/ \E k \in DOMAIN node.args :
                  AccessibleInsideOld(node.args[k], inside \/ node.name = OLD)
      [] node.kind = "BoolOp" ->
            \/ AccessibleInsideOld(node.left, inside)
            \/ AccessibleInsideOld(node.right, inside)
      [] OTHER -> FALSE

RECURSIVE AccessibleCalls(_)
AccessibleCalls(node) ==
    CASE node.kind = "FunctionCall" ->
            (IF node.name = ACCESSIBLE THEN 1 ELSE 0)
                + (IF Len(node.args) >= 1 THEN AccessibleCalls(node.args[1]) ELSE 0)
                + (IF Len(node.args) >= 2 THEN AccessibleCalls(node.args[2]) ELSE 0)
      [] node.kind = "BoolOp" ->
            AccessibleCalls(node.left) + AccessibleCalls(node.right)
      [] OTHER -> 0

C30_AccessibleInsideOldRejected ==
    oldscope.pc \in {"checked", "rejected"} =>
        LET node == oldscope.node[1]
        IN /\ (oldscope.error = <<"spec.old.accessible">>)
                  <=> AccessibleInsideOld(node, FALSE)
           /\ oldscope.pc = "rejected" <=> oldscope.error # <<>>
           /\ oldscope.pc = "checked" =>
                 /\ ~oldscope._inside_old
                 /\ Len(oldscope.flags) = AccessibleCalls(node)
                 /\ \A k \in DOMAIN oldscope.flags : ~oldscope.flags[k]

C30_Witness ==
    /\ oldscope.pc = "rejected"
    /\ oldscope.node =
          <<FunctionCall(OLD, <<FunctionCall(FORALL,
                <<Bound,
                  FunctionCall(ACCESSIBLE, <<Name("x"), Name("x")>>)>>)>>)>>
    /\ oldscope.error = <<"spec.old.accessible">>

=============================================================================
